---- MODULE Spec2Model ----
(***************************************************************************)
(* Model of the energy logger: the tariff accumulator of                   *)
(* lib/abstract.py (AbstractModule.write_meter_reading, write_tariff,      *)
(* process_tariff), the supervisor loop of elog.py (main), the sink        *)
(* writers (abstract.py with influx.py, data/database/influxdb.py), the    *)
(* GoodWe poller (modules/goodwe_em.py, goodwe.py) and the lasttariff      *)
(* tables of the module instances.                                         *)
(*                                                                         *)
(* Amounts and rates are exact rationals <<numerator, denominator>>; the   *)
(* Python code computes the same expressions in binary floating point.     *)
(***************************************************************************)
EXTENDS Integers, Sequences, FiniteSets, TLC

VARIABLES
    tariff,       \* AbstractModule.tariff: the tariff definitions of the module (read-only)
    lasttariff,   \* AbstractModule.lasttariff: meter id -> LastTariffState or None
    sink,         \* the mutations executed against the schema, in order
    readings,     \* history: the readings handed to write_tariff, in order
    charges,      \* history: charges[i] is the charge tried for readings[i], or None
    before,       \* history: before[i] is lasttariff as it was when readings[i] arrived
    raised,       \* TRUE once write_meter_reading has raised
    valueerror,   \* TRUE once process_tariff has raised ValueError on a start string
    loaded,       \* elog.main: "config" until the configuration is validated, then
                  \* "running" or "aborted"
    config,       \* elog.main: the configuration file as read (read-only)
    pc,           \* elog.main: where the supervisor is
    started,      \* elog.main: number of modules instantiated and started so far
    started_threads, \* elog.main: the names of the started modules
    thread,       \* per module: "new", "running", "blocked" or "exited"
    terminate,    \* per module: the terminate event of its thread
    qsize,        \* per module: depth of its inputs queue (0 when it has none)
    joining,      \* elog.main finally: the threads still to terminate and join
    ticked,       \* history: what the last monitoring tick saw, or None
    exit_status,  \* the exit status of the process, None while it runs
    wstyle,       \* the writer: "plugin" (abstract.py, influx.py) or "database"
                  \* (lib/abstract.py, data/database/influxdb.py)
    wqueue,       \* the batches of entries still to come to the writer, in order
    wbatch,       \* the entries of the batch in hand still to write; the head is tried
    wsink,        \* the entries the sink holds, in the order of their writes
    wthread,      \* the thread of the writing unit: "running" or "exited"
    wterm,        \* the terminate event of the writing unit
    wtries,       \* failed attempts on the entry in hand
    wconn,        \* history: the entries a write of which met a ConnectionError
    wfailed,      \* history: the entries a write of which failed for another reason
    wgone,        \* history: the entries the writer left behind unwritten
    gstyle,       \* the GoodWe poller: "module" (modules/goodwe_em.py) or "plugin" (goodwe.py)
    gpc,          \* where the poller is in its cycle: "top", "send_offline", "offline",
                  \* "send_id", "id", "send_run", "run" (the plain names: in _receive) or "sleep"
    state,        \* self.state: "OFFLINE" or "RUNNING"
    statetime,    \* cycles slept through since self.statetime was set
    idinfo,       \* self.idinfo is filled in
    ap_address,   \* self.ap_address
    inverter_address, \* self.inverter_address
    gthread,      \* the thread of the poller: "running" or "exited"
    gterm,        \* the terminate event of the poller
    glast,        \* history: what the last step of the poller received, or None
    quiet,        \* history: cycles slept through since the device last gave a valid response
    retry,        \* retry of _send_udp: the failed sends of the query in hand
    heap,         \* the dict objects created by AbstractModule.__init__, in order
    olasttariff,  \* per module instance: the dict its lasttariff attribute refers to, 0 before __init__
    opc,          \* per module thread: "new", "idle", or "charged" (inside write_tariff,
                  \* between the charge and the loop over the definitions)
    oid,          \* per module thread: kwargs['id'] of the reading in hand, or None
    odone,        \* per module thread: readings processed
    oaccess,      \* history: [thread, table, op] for every get and store on a dict of heap
    formatters,   \* self.formatters of the plugins of abstract.py: a list of [name, queuename]
    queues,       \* self.queues: for each queue name the entries waiting, oldest first
    sent,         \* history: the readings handed to _data_send, [data, outs]
    rpc,          \* AbstractDatabase.run: "while", "start" (before thread.start) or "join"
    ridx,         \* the queue the for loop of run is at, 0 outside the loop
    alive,        \* the queues whose listener thread is alive
    taken,        \* history: [queue, data, round] for every queue.get that returned
    dbsink,       \* the calls of data_callback: [queue, data]
    rounds,       \* passes of the while loop of run begun
    dterm,        \* the terminate event of the database plugin
    dthread,      \* the thread of the database plugin: "running" or "exited"
    enistic_time_offset, \* self.enistic_time_offset of the Enistic poller, [seconds], or None
    last_reading_time,   \* self.last_reading_time
    serial_number,       \* self.serial_number is known
    model_name,          \* self.model_name is known
    ethread,      \* the thread of the Enistic poller: "running" or "exited"
    eforwarded,   \* history: the calls of write_meter_reading, [time, id]
    elast         \* history: what process_outputs did with its last packet, [did, id], or None

tvars == <<tariff, lasttariff, sink, readings, charges, before, raised,
           valueerror, loaded>>

svars == <<config, pc, started, started_threads, thread, terminate, qsize,
           joining, ticked, exit_status>>

wvars == <<wstyle, wqueue, wbatch, wsink, wthread, wterm, wtries, wconn,
           wfailed, wgone>>

gvars == <<gstyle, gpc, state, statetime, idinfo, ap_address, inverter_address,
           gthread, gterm, glast, quiet, retry>>

ovars == <<heap, olasttariff, opc, oid, odone, oaccess>>

fvars == <<formatters, queues, sent, rpc, ridx, alive, taken, dbsink, rounds,
           dterm, dthread>>

evars == <<enistic_time_offset, last_reading_time, serial_number, model_name,
           ethread, eforwarded, elast>>

vars == <<tariff, lasttariff, sink, readings, charges, before, raised,
          valueerror, loaded,
          config, pc, started, started_threads, thread, terminate, qsize,
          joining, ticked, exit_status,
          wstyle, wqueue, wbatch, wsink, wthread, wterm, wtries, wconn,
          wfailed, wgone,
          gstyle, gpc, state, statetime, idinfo, ap_address, inverter_address,
          gthread, gterm, glast, quiet, retry,
          heap, olasttariff, opc, oid, odone, oaccess,
          formatters, queues, sent, rpc, ridx, alive, taken, dbsink, rounds,
          dterm, dthread,
          enistic_time_offset, last_reading_time, serial_number, model_name,
          ethread, eforwarded, elast>>

\* what the steps of one part of the program leave alone
exceptTariff == <<svars, wvars, gvars, ovars, fvars, evars>>

exceptSupervisor == <<tvars, wvars, gvars, ovars, fvars, evars>>

exceptWriter == <<tvars, svars, gvars, ovars, fvars, evars>>

exceptPoller == <<tvars, svars, wvars, ovars, fvars, evars>>

exceptOwners == <<tvars, svars, wvars, gvars, fvars, evars>>

exceptQueues == <<tvars, svars, wvars, gvars, ovars, evars>>

exceptEnistic == <<tvars, svars, wvars, gvars, ovars, fvars>>

-----------------------------------------------------------------------------
(* Bounds *)

MaxReadings == 3

\* entries that come to the writer
MaxEntries == 3

\* connection errors in a row on one entry
MaxRetries == 2

\* readings of one module thread
MaxWrites == 2

\* a small configured max_queue_size
SmallQueue == 2

\* how far past max_queue_size the producers are followed
Overfill == 1

\* readings a collector hands to _data_send
MaxSends == 2

\* passes of the while loop of AbstractDatabase.run
MaxRounds == 2

\* readings the Enistic poller hands to write_meter_reading
MaxForwards == 3

-----------------------------------------------------------------------------
(* Exact rational arithmetic *)

Abs(n) == IF n < 0 THEN -n ELSE n

RECURSIVE GCD(_, _)
GCD(a, b) == IF b = 0 THEN a ELSE GCD(b, a % b)

Rat(n, d) == LET g == GCD(Abs(n), d) IN <<n \div g, d \div g>>

RMul(a, b) ==
    LET g1 == GCD(Abs(a[1]), b[2])
        g2 == GCD(Abs(b[1]), a[2])
    IN  <<(a[1] \div g1) * (b[1] \div g2), (a[2] \div g2) * (b[2] \div g1)>>

RAbs(a) == <<Abs(a[1]), a[2]>>

RPos(a) == a[1] > 0

-----------------------------------------------------------------------------
(* Configuration and inputs *)

None == [none |-> TRUE]

Meters == {"m1", "m2"}

\* a rate window; start holds the fields of the start string between the colons
WindowAt(start, amount, tax, rateid) ==
    [start |-> start, amount |-> amount, tax |-> tax,
     unit |-> "kWh", rateid |-> rateid]

Window(h, m, s, amount, tax, rateid) == WindowAt(<<h, m, s>>, amount, tax, rateid)

Definition(id, source, mv, type, name, rate) ==
    [meter |-> [id |-> id, source |-> source, meter_values |-> mv],
     type |-> type, name |-> name, rate |-> rate]

\* one flat window from midnight, applied to every reading of m1
FlatTariff ==
    <<Definition("m1", "s1", "both", "expense", "flat",
                 <<Window(0, 0, 0, 10, 20, "r0")>>)>>

\* import and export definitions of m1; the export day starts at 06:00 with a free window
DayNightTariff ==
    <<Definition("m1", "s1", "positive", "expense", "import",
                 <<Window(0, 0, 0, 12, 0, "night"), Window(6, 15, 0, 30, 20, "day")>>),
      Definition("m1", "s1", "negative", "income", "export",
                 <<Window(6, 0, 0, 0, 0, "early"), Window(6, 15, 0, 8, 0, "late")>>)>>

\* windows that leave the first hour of the day uncovered, and a second meter
LateStartTariff ==
    <<Definition("m1", "s1", "positive", "expense", "late",
                 <<Window(1, 0, 0, 6, 0, "a"), Window(6, 0, 0, 9, 0, "b"),
                   Window(6, 15, 0, 18, 50, "c")>>),
      Definition("m2", "s1", "both", "expense", "second",
                 <<Window(0, 0, 0, 36, 0, "z")>>)>>

\* windows listed out of order
UnsortedTariff ==
    <<Definition("m1", "s1", "both", "expense", "unsorted",
                 <<Window(6, 15, 0, 30, 0, "u7"), Window(0, 0, 0, 12, 0, "u0"),
                   Window(6, 0, 0, 18, 0, "u6")>>)>>

Tariffs == {FlatTariff, DayNightTariff, LateStartTariff, UnsortedTariff}

\* the day window is written "6:15", without seconds
ShortStartTariff ==
    <<Definition("m1", "s1", "both", "expense", "short",
                 <<Window(0, 0, 0, 12, 0, "night"), WindowAt(<<6, 15>>, 30, 20, "day")>>)>>

\* the night window is written "0", the day window is well formed; and a
\* well-formed definition of the same meter listed before it
ShortFirstTariff ==
    <<Definition("m1", "s1", "both", "expense", "good",
                 <<Window(0, 0, 0, 10, 0, "g")>>),
      Definition("m1", "s1", "positive", "expense", "first",
                 <<WindowAt(<<0>>, 12, 0, "night"), Window(6, 0, 0, 30, 20, "day")>>)>>

MalformedTariffs == {ShortStartTariff, ShortFirstTariff}

\* a definition whose meter has no meter_values key
DefinitionNoPolicy(id, source, type, name, rate) ==
    [meter |-> [id |-> id, source |-> source],
     type |-> type, name |-> name, rate |-> rate]

\* m1 without a policy, m2 with a policy that is none of the three values
NoPolicyTariff ==
    <<DefinitionNoPolicy("m1", "s1", "expense", "plain",
                         <<Window(0, 0, 0, 10, 0, "p")>>),
      Definition("m2", "s1", "all", "expense", "other",
                 <<Window(0, 0, 0, 36, 0, "o")>>)>>

\* two definitions of m1 that both admit a positive reading
OverlapTariff ==
    <<Definition("m1", "s1", "both", "income", "feed",
                 <<Window(0, 0, 0, 8, 0, "f")>>),
      Definition("m1", "s1", "positive", "expense", "import",
                 <<Window(0, 0, 0, 12, 0, "night"), Window(6, 0, 0, 30, 20, "day")>>)>>

PolicyTariffs == {NoPolicyTariff, DayNightTariff, FlatTariff, OverlapTariff}

\* midnight, 01:00:00, 06:00:00, and 06:30:00.999 of the next day
Times == {0, 3600000, 21600000, 109800999}

Reading(time, source, id, reading) ==
    [time |-> time, source |-> source, id |-> id, reading |-> reading]

\* import and export readings of m1 at every time, a 1 kW reading at midnight,
\* a reading of 0, readings of m2, and a reading of m1 from another source
Readings ==
    {Reading(t, "s1", "m1", v) : t \in Times, v \in {-1000, 2000}}
    \cup {Reading(0, "s1", "m1", 1000), Reading(3600000, "s1", "m1", 0)}
    \cup {Reading(t, "s1", "m2", 2000) : t \in {0, 3600000}}
    \cup {Reading(21600000, "s2", "m1", 1000)}

-----------------------------------------------------------------------------
(* process_tariff *)

\* h, m, s = start.split(':'); int(h) * 3600 + int(m) * 60 + int(s)
RateStart(w) == w.start[1] * 3600 + w.start[2] * 60 + w.start[3]

\* int((time / 1000) % 86400)
TimeOfDay(time) == (time \div 1000) % 86400

\* h, m, s = start.split(':') finds three fields
WellFormed(w) == Len(w.start) = 3

\* the loop of process_tariff comes to a window whose start string does not
\* split into h, m, s before it breaks: ValueError
RECURSIVE StartRaises(_, _, _)
StartRaises(rate, at, i) ==
    IF ~WellFormed(rate[i]) THEN TRUE
    ELSE IF at >= RateStart(rate[i]) THEN FALSE
    ELSE IF i = 1 THEN FALSE
    ELSE StartRaises(rate, at, i - 1)

\* process_tariff raises for the reading
ProcessTariffRaises(tariffs, kwargs) ==
    StartRaises(tariffs.rate, TimeOfDay(kwargs.time), Len(tariffs.rate))

\* faulty variant: the tax is left out of the rate
EffectiveRateNoTax(w) == Rat(w.amount, 3600)

\* tax = 1 + float(tax.strip('%')) / 100.0; rate = amount / 3600 * tax
EffectiveRate(w) == RMul(Rat(w.amount, 3600), Rat(100 + w.tax, 100))

\* faulty variant: a window starts to apply only after its start
RECURSIVE SelectIndexStrict(_, _, _)
SelectIndexStrict(rate, at, i) ==
    IF at > RateStart(rate[i]) THEN i
    ELSE IF i = 1 THEN i
    ELSE SelectIndexStrict(rate, at, i - 1)

\* for i in range(len(rate) - 1, -1, -1): ... if at >= rate_start: break
\* (the value of i after the loop; windows are numbered from 1 here)
RECURSIVE SelectIndex(_, _, _)
SelectIndex(rate, at, i) ==
    IF at >= RateStart(rate[i]) THEN i
    ELSE IF i = 1 THEN i
    ELSE SelectIndex(rate, at, i - 1)

SelectRate(tariffs, kwargs) ==
    SelectIndex(tariffs.rate, TimeOfDay(kwargs.time), Len(tariffs.rate))

\* faulty variant: rate is assigned after the test, and stays at its initial
\* 0 when no window qualifies
RECURSIVE LoopRateQualified(_, _, _)
LoopRateQualified(rate, at, i) ==
    IF at >= RateStart(rate[i]) THEN EffectiveRate(rate[i])
    ELSE IF i = 1 THEN Rat(0, 1)
    ELSE LoopRateQualified(rate, at, i - 1)

\* the value of the variable rate after the loop: it is assigned in every
\* pass, before the test that breaks
RECURSIVE LoopRate(_, _, _)
LoopRate(rate, at, i) ==
    IF at >= RateStart(rate[i]) THEN EffectiveRate(rate[i])
    ELSE IF i = 1 THEN EffectiveRate(rate[i])
    ELSE LoopRate(rate, at, i - 1)

\* the LastTariffState process_tariff stores for the reading
ProcessTariff(tariffs, kwargs) ==
    LET i == SelectRate(tariffs, kwargs)
    IN  [time    |-> kwargs.time,
         reading |-> kwargs.reading,
         read_at |-> kwargs.time,
         rate    |-> LoopRate(tariffs.rate, TimeOfDay(kwargs.time), Len(tariffs.rate)),
         tariff  |-> <<tariffs.rate[i].amount, tariffs.rate[i].unit>>,
         tax     |-> tariffs.rate[i].tax,
         type    |-> tariffs.type,
         name    |-> tariffs.name,
         rateid  |-> tariffs.rate[i].rateid]

-----------------------------------------------------------------------------
(* write_tariff *)

\* faulty variant: the state of another meter is used when the meter has none
LastOfAny(lt, kwargs) ==
    IF lt[kwargs.id] # None THEN lt[kwargs.id]
    ELSE IF \E m \in Meters : lt[m] # None
         THEN lt[CHOOSE m \in Meters : lt[m] # None]
         ELSE None

\* self.lasttariff.get(kwargs['id'], None)
LastOf(lt, kwargs) == lt[kwargs.id]

\* faulty variant: the amount keeps its sign
AmountSigned(last, kwargs) ==
    RMul(RMul(Rat(kwargs.reading, 1000), last.rate),
         Rat(kwargs.time - last.read_at, 1000))

\* faulty variant: delta is left in milliseconds
AmountMs(last, kwargs) ==
    RAbs(RMul(RMul(Rat(kwargs.reading, 1000), last.rate),
              Rat(kwargs.time - last.read_at, 1)))

\* delta = (time - read_at) / 1000; amount = abs((reading / 1000) * rate * delta)
Amount(last, kwargs) ==
    RAbs(RMul(RMul(Rat(kwargs.reading, 1000), last.rate),
              Rat(kwargs.time - last.read_at, 1000)))

\* the tariff dict built from the stored state
TariffCharge(last, kwargs) ==
    [time   |-> last.time,
     id     |-> kwargs.id,
     amount |-> Amount(last, kwargs),
     tariff |-> last.tariff,
     tax    |-> last.tax,
     type   |-> last.type,
     name   |-> last.name,
     rateid |-> last.rateid]

\* faulty variant: amount >= 0
EmitsNonNegative(charge) == charge.amount[1] >= 0

\* if tariff['amount'] > 0
Emits(charge) == RPos(charge.amount)

\* d['meter']['id'] == kwargs['id'] and d['meter']['source'] == kwargs['source']
ForMeter(d, kwargs) ==
    d.meter.id = kwargs.id /\ d.meter.source = kwargs.source

\* faulty variant: without the key no policy applies
MeterValuesRequired(d) ==
    IF "meter_values" \in DOMAIN d.meter THEN d.meter.meter_values ELSE "none"

\* tariffs['meter'].get('meter_values', 'both')
MeterValues(d) ==
    IF "meter_values" \in DOMAIN d.meter THEN d.meter.meter_values ELSE "both"

\* faulty variant: a reading of 0 is not positive
PolicyMatchesStrict(d, kwargs) ==
    \/ MeterValues(d) = "negative" /\ kwargs.reading < 0
    \/ MeterValues(d) = "positive" /\ kwargs.reading > 0
    \/ MeterValues(d) = "both"

\* the if / elif chain on meter_values
PolicyMatches(d, kwargs) ==
    \/ MeterValues(d) = "negative" /\ kwargs.reading < 0
    \/ MeterValues(d) = "positive" /\ kwargs.reading >= 0
    \/ MeterValues(d) = "both"

Applies(d, kwargs) == ForMeter(d, kwargs) /\ PolicyMatches(d, kwargs)

\* the for loop over the definitions of the meter raises in process_tariff
WriteTariffRaises(defs, kwargs) ==
    \E n \in DOMAIN defs : Applies(defs[n], kwargs) /\ ProcessTariffRaises(defs[n], kwargs)

\* faulty variant: the loop over the definitions ends at the first that applies
RECURSIVE UpdateFirst(_, _, _, _)
UpdateFirst(defs, lt, kwargs, n) ==
    IF n > Len(defs) THEN lt
    ELSE IF Applies(defs[n], kwargs)
         THEN [lt EXCEPT ![kwargs.id] = ProcessTariff(defs[n], kwargs)]
         ELSE UpdateFirst(defs, lt, kwargs, n + 1)

\* the for loop over the definitions of the meter: each one that applies
\* overwrites the state of the meter; the loop ends where process_tariff raises
RECURSIVE UpdateLast(_, _, _, _)
UpdateLast(defs, lt, kwargs, n) ==
    IF n > Len(defs) THEN lt
    ELSE IF Applies(defs[n], kwargs) /\ ProcessTariffRaises(defs[n], kwargs) THEN lt
    ELSE UpdateLast(defs,
                    IF Applies(defs[n], kwargs)
                    THEN [lt EXCEPT ![kwargs.id] = ProcessTariff(defs[n], kwargs)]
                    ELSE lt,
                    kwargs, n + 1)

\* faulty variant: the definitions are gone through after a failed mutation too
StateAfterAlways(lt, kwargs, failed) == UpdateLast(tariff, lt, kwargs, 1)

\* the table after the reading: raise RuntimeError leaves write_meter_reading
\* before write_tariff, or write_tariff before the loop over the definitions
StateAfter(lt, kwargs, failed) ==
    IF failed THEN lt ELSE UpdateLast(tariff, lt, kwargs, 1)

\* the charge write_tariff builds for the reading, None without a stored state
ChargeFor(lt, kwargs) ==
    IF LastOf(lt, kwargs) # None THEN TariffCharge(LastOf(lt, kwargs), kwargs) ELSE None

ReadingRecord(kwargs, rerr) ==
    [kind |-> "createMeterReading", value |-> kwargs, errors |-> rerr]

ChargeRecord(charge, terr) ==
    [kind |-> "createMeterTariff", value |-> charge, errors |-> terr]

\* faulty variant: the charge is written ahead of the reading
PersistChargeFirst(s, kwargs, rerr, charge, due, terr) ==
    IF ~rerr /\ due
    THEN s \o <<ChargeRecord(charge, terr), ReadingRecord(kwargs, rerr)>>
    ELSE Append(s, ReadingRecord(kwargs, rerr))

\* the mutations write_meter_reading executes, in their order: the reading
\* first, then in write_tariff the charge, if the reading was written and a
\* charge is due
Persist(s, kwargs, rerr, charge, due, terr) ==
    IF ~rerr /\ due
    THEN s \o <<ReadingRecord(kwargs, rerr), ChargeRecord(charge, terr)>>
    ELSE Append(s, ReadingRecord(kwargs, rerr))

-----------------------------------------------------------------------------
(* write_meter_reading: one reading of a module, with the outcome of the   *)
(* two mutations (rerr, terr: the result carries errors)                   *)

WriteMeterReading(kwargs, rerr, terr) ==
    /\ loaded = "running"
    /\ ~raised
    /\ Len(readings) < MaxReadings
    /\ LET charge == ChargeFor(lasttariff, kwargs)
           due    == charge # None /\ Emits(charge)
       IN  /\ sink' = Persist(sink, kwargs, rerr, charge, due, terr)
           /\ valueerror' = (~rerr /\ ~(due /\ terr) /\ WriteTariffRaises(tariff, kwargs))
           /\ raised' = (rerr \/ (due /\ terr) \/ valueerror')
           /\ lasttariff' = StateAfter(lasttariff, kwargs, rerr \/ (due /\ terr))
           /\ IF rerr
              THEN UNCHANGED <<readings, charges, before>>
              ELSE /\ readings' = Append(readings, kwargs)
                   /\ charges' = Append(charges, IF due THEN charge ELSE None)
                   /\ before' = Append(before, lasttariff)
    /\ UNCHANGED <<tariff, loaded>>
    /\ UNCHANGED exceptTariff

\* elog.main: the configuration is read and validated (ok: the measurements
\* and sensors pass) before the modules are set up with their tariff
LoadConfig(ok) ==
    /\ loaded = "config"
    /\ loaded' = IF ok THEN "running" ELSE "aborted"
    /\ UNCHANGED <<tariff, lasttariff, sink, readings, charges, before, raised, valueerror>>
    /\ UNCHANGED exceptTariff

-----------------------------------------------------------------------------
(* elog.main: the supervisor *)

Mod(name, inputs) == [name |-> name, inputs |-> inputs]

\* a poller and two consumers, each consumer with its own inputs queue
TwoQueues ==
    [module |-> <<Mod("goodwe", FALSE), Mod("influx", TRUE), Mod("measurement", TRUE)>>,
     max_queue_size |-> SmallQueue]

\* two inverters, each configured as a module entry named goodwe
TwoInverters ==
    [module |-> <<Mod("goodwe", FALSE), Mod("goodwe", FALSE), Mod("influx", TRUE)>>,
     max_queue_size |-> SmallQueue]

\* no max_queue_size in the configuration file
DefaultQueue ==
    [module |-> <<Mod("enistic", FALSE), Mod("influx", TRUE)>>]

Configs == {TwoQueues, TwoInverters, DefaultQueue}

NoConfig == [module |-> <<>>]

\* max_queue_size = config.get('max_queue_size', 1000)
max_queue_size ==
    IF "max_queue_size" \in DOMAIN config THEN config.max_queue_size ELSE 1000

Modules == DOMAIN config.module

ModuleName(i) == config.module[i].name

\* thread.isAlive()
IsAlive(i) == thread[i] \in {"running", "blocked"}

\* the thread is between two suspensions of its loop
Running(i) == thread[i] = "running"

\* the pollers can be suspended without a bound: enistic in sock.recvfrom on
\* a socket without timeout, every poller in the while True retry loop of
\* Database.write_meter_reading
CanBlock(i) == ModuleName(i) \in {"enistic", "goodwe"}

\* faulty variant: the depth is compared with the default, not the configured size
oversize_queues_default ==
    {i \in Modules : config.module[i].inputs /\ qsize[i] >= 1000}

\* [queue['name'] for queue in queues if queue['queue'].qsize() >= max_queue_size]
oversize_queues ==
    {i \in Modules : config.module[i].inputs /\ qsize[i] >= max_queue_size}

\* set([thread.getName() for thread in threading.enumerate()])
running_threads ==
    {ModuleName(i) : i \in {j \in Modules : IsAlive(j)}} \cup {"MainThread"}

\* started_threads - running_threads
stopped_threads == started_threads \ running_threads

\* faulty variant: the finally block finds no thread to end
AliveFromNone(i) == <<>>

\* [thread for thread in threading.enumerate()
\*  if thread.isAlive() and thread.getName() in started_threads], oldest first
RECURSIVE AliveFrom(_)
AliveFrom(i) ==
    IF i > Len(config.module) THEN <<>>
    ELSE IF IsAlive(i) /\ ModuleName(i) \in started_threads
         THEN <<i>> \o AliveFrom(i + 1)
         ELSE AliveFrom(i + 1)

\* instance = Module(module); instance.setName(name); instance.start();
\* started_threads.add(name); an exception leaves through the finally block
StartModule(ok) ==
    /\ pc = "start"
    /\ started < Len(config.module)
    /\ IF ok
       THEN /\ started' = started + 1
            /\ thread' = [thread EXCEPT ![started + 1] = "running"]
            /\ started_threads' = started_threads \cup {ModuleName(started + 1)}
            /\ UNCHANGED <<pc, joining>>
       ELSE /\ pc' = "finally"
            /\ joining' = AliveFrom(1)
            /\ UNCHANGED <<started, thread, started_threads>>
    /\ UNCHANGED <<config, terminate, qsize, ticked>>
    /\ UNCHANGED exit_status
    /\ UNCHANGED exceptSupervisor

\* webserver = lib.web.WebServer(config['server']); ...; 'Program started'
StartWebServer(ok) ==
    /\ pc = "start"
    /\ started = Len(config.module)
    /\ IF ok
       THEN pc' = "monitor" /\ UNCHANGED joining
       ELSE pc' = "finally" /\ joining' = AliveFrom(1)
    /\ UNCHANGED <<config, started, started_threads, thread, terminate, qsize, ticked>>
    /\ UNCHANGED exit_status
    /\ UNCHANGED exceptSupervisor

\* AbstractModule.run: process_outputs raises, the exception is logged and
\* the thread ends
UnitThrows(i) ==
    /\ Running(i)
    /\ thread' = [thread EXCEPT ![i] = "exited"]
    /\ UNCHANGED <<config, pc, started, started_threads, terminate, qsize, joining, ticked>>
    /\ UNCHANGED exit_status
    /\ UNCHANGED exceptSupervisor

\* AbstractModule.run: while not self.terminate.is_set() ends the loop
UnitStops(i) ==
    /\ Running(i)
    /\ terminate[i]
    /\ thread' = [thread EXCEPT ![i] = "exited"]
    /\ UNCHANGED <<config, pc, started, started_threads, terminate, qsize, joining, ticked>>
    /\ UNCHANGED exit_status
    /\ UNCHANGED exceptSupervisor

\* the thread waits for a packet that does not come, or for the sink to
\* come back
UnitBlocks(i) ==
    /\ Running(i)
    /\ CanBlock(i)
    /\ thread' = [thread EXCEPT ![i] = "blocked"]
    /\ UNCHANGED <<config, pc, started, started_threads, terminate, qsize, joining, ticked>>
    /\ UNCHANGED exit_status
    /\ UNCHANGED exceptSupervisor

\* the packet arrives, or the write succeeds
UnitResumes(i) ==
    /\ thread[i] = "blocked"
    /\ thread' = [thread EXCEPT ![i] = "running"]
    /\ UNCHANGED <<config, pc, started, started_threads, terminate, qsize, joining, ticked>>
    /\ UNCHANGED exit_status
    /\ UNCHANGED exceptSupervisor

\* Queue(): the inputs queues are created without a maxsize
maxsize == 0

\* faulty variant: the queue is created with the threshold as its capacity
FullAtThreshold(q) == qsize[q] >= max_queue_size

\* Queue.put waits while maxsize > 0 and qsize() >= maxsize
Full(q) == maxsize > 0 /\ qsize[q] >= maxsize

\* a running module puts a reading on the inputs queue of module q
Push(q) ==
    /\ config.module[q].inputs
    /\ \E i \in Modules : Running(i)
    /\ qsize[q] < max_queue_size + Overfill
    /\ ~Full(q)
    /\ qsize' = [qsize EXCEPT ![q] = @ + 1]
    /\ UNCHANGED <<config, pc, started, started_threads, thread, terminate, joining, ticked>>
    /\ UNCHANGED exit_status
    /\ UNCHANGED exceptSupervisor

\* the running module q takes a reading from its inputs queue
Pop(q) ==
    /\ config.module[q].inputs
    /\ Running(q)
    /\ qsize[q] > 0
    /\ qsize' = [qsize EXCEPT ![q] = @ - 1]
    /\ UNCHANGED <<config, pc, started, started_threads, thread, terminate, joining, ticked>>
    /\ UNCHANGED exit_status
    /\ UNCHANGED exceptSupervisor

\* the result of one pass of the monitoring loop after time.sleep(10)
LeavesLoop == oversize_queues # {} \/ stopped_threads # {}

\* one pass of the while True loop
Tick ==
    /\ pc = "monitor"
    /\ ticked' = [over    |-> \E q \in Modules : config.module[q].inputs
                                                 /\ qsize[q] > max_queue_size,
                  dead    |-> \E i \in 1..started : ~IsAlive(i),
                  leaves  |-> LeavesLoop]
    /\ IF LeavesLoop
       THEN pc' = "finally" /\ joining' = AliveFrom(1)
       ELSE UNCHANGED <<pc, joining>>
    /\ UNCHANGED <<config, started, started_threads, thread, terminate, qsize>>
    /\ UNCHANGED exit_status
    /\ UNCHANGED exceptSupervisor

\* finally: thread.terminate.set() for the next thread of the list
Terminate ==
    /\ pc = "finally"
    /\ joining # <<>>
    /\ terminate' = [terminate EXCEPT ![Head(joining)] = TRUE]
    /\ pc' = "join"
    /\ UNCHANGED <<config, started, started_threads, thread, qsize, joining, ticked>>
    /\ UNCHANGED exit_status
    /\ UNCHANGED exceptSupervisor

\* finally: thread.join() returns once that thread has ended
Join ==
    /\ pc = "join"
    /\ ~IsAlive(Head(joining))
    /\ joining' = Tail(joining)
    /\ pc' = "finally"
    /\ UNCHANGED <<config, started, started_threads, thread, terminate, qsize, ticked>>
    /\ UNCHANGED exit_status
    /\ UNCHANGED exceptSupervisor

\* why main left its try block: a tick found a violation ("violation"), or
\* an exception of the start-up was caught ("exception")
Cause == IF ticked # None /\ ticked.leaves THEN "violation" ELSE "exception"

\* main() returns after the finally block whatever ended the try block, and
\* the script ends after main(): the interpreter exits with status 0
ExitStatus(cause) == 0

\* finally: 'Program terminated'; main returns and the process exits
Terminated ==
    /\ pc = "finally"
    /\ joining = <<>>
    /\ pc' = "done"
    /\ exit_status' = ExitStatus(Cause)
    /\ UNCHANGED <<config, started, started_threads, thread, terminate, qsize, joining, ticked>>
    /\ UNCHANGED exceptSupervisor

-----------------------------------------------------------------------------
(* The sink writer: the queue listener of abstract.py with the             *)
(* data_callback of influx.py ("plugin"), and write_meter_reading of       *)
(* lib/abstract.py with the Database of data/database/influxdb.py          *)
(* ("database"). Entries are numbered in the order they were produced.     *)

Range(seq) == {seq[k] : k \in DOMAIN seq}

\* the entries from..MaxEntries in batches of one or two
RECURSIVE Batches(_)
Batches(from) ==
    IF from > MaxEntries THEN {<<>>}
    ELSE UNION {{<<[k \in 1..n |-> from + k - 1]>> \o rest : rest \in Batches(from + n)}
                : n \in {m \in {1, 2} : from + m - 1 <= MaxEntries}}

\* one reading for each call of write_meter_reading
Singles == [k \in 1..MaxEntries |-> <<k>>]

\* faulty variant: the entry is given up at a connection error
SkipEntry(batch) == Tail(batch)

\* except ConnectionError: pass -- the loop tries the same entry again
RetryEntry(batch) == batch

\* while not self.terminate.is_set() (data_callback); while True (Database)
TriesWrite == wstyle = "database" \/ ~wterm

\* _process_queue: data = queue.get(...) and data_callback(data) is entered;
\* process_outputs: the next reading is handed to write_meter_reading
Dequeue ==
    /\ wthread = "running"
    /\ ~wterm
    /\ wbatch = <<>>
    /\ wqueue # <<>>
    /\ wbatch' = Head(wqueue)
    /\ wqueue' = Tail(wqueue)
    /\ wtries' = 0
    /\ UNCHANGED <<wstyle, wsink, wthread, wterm, wconn, wfailed, wgone>>
    /\ UNCHANGED exceptWriter

\* connection.write succeeds: break, on to the next entry
WriteOk ==
    /\ wthread = "running"
    /\ wbatch # <<>>
    /\ TriesWrite
    /\ wsink' = Append(wsink, Head(wbatch))
    /\ wbatch' = Tail(wbatch)
    /\ wtries' = 0
    /\ UNCHANGED <<wstyle, wqueue, wthread, wterm, wconn, wfailed, wgone>>
    /\ UNCHANGED exceptWriter

\* connection.write raises requests.exceptions.ConnectionError
WriteConnectionError ==
    /\ wthread = "running"
    /\ wbatch # <<>>
    /\ TriesWrite
    /\ wtries < MaxRetries
    /\ wbatch' = RetryEntry(wbatch)
    /\ wtries' = wtries + 1
    /\ wconn' = wconn \cup {Head(wbatch)}
    /\ wgone' = wgone \cup (Range(wbatch) \ Range(wbatch'))
    /\ UNCHANGED <<wstyle, wqueue, wsink, wthread, wterm, wfailed>>
    /\ UNCHANGED exceptWriter

\* connection.write raises another exception, or returns False to the
\* Database. plugin: the exception ends the listener thread of the queue
\* and run, which has joined it, goes on. database: RuntimeError leaves
\* write_meter_reading and process_outputs, run logs it and the thread ends.
WriteFails ==
    /\ wthread = "running"
    /\ wbatch # <<>>
    /\ TriesWrite
    /\ wfailed' = wfailed \cup {Head(wbatch)}
    /\ wgone' = wgone \cup Range(wbatch)
    /\ wbatch' = <<>>
    /\ wtries' = 0
    /\ wthread' = IF wstyle = "database" THEN "exited" ELSE wthread
    /\ UNCHANGED <<wstyle, wqueue, wsink, wterm, wconn>>
    /\ UNCHANGED exceptWriter

\* data_callback with terminate set: the while loop of each remaining entry
\* is not entered and the for loop runs out
Abandon ==
    /\ wthread = "running"
    /\ wstyle = "plugin"
    /\ wterm
    /\ wbatch # <<>>
    /\ wgone' = wgone \cup Range(wbatch)
    /\ wbatch' = <<>>
    /\ wtries' = 0
    /\ UNCHANGED <<wstyle, wqueue, wsink, wthread, wterm, wconn, wfailed>>
    /\ UNCHANGED exceptWriter

\* run: while not self.terminate.is_set() ends the loop
WriterStops ==
    /\ wthread = "running"
    /\ wterm
    /\ wbatch = <<>>
    /\ wthread' = "exited"
    /\ UNCHANGED <<wstyle, wqueue, wbatch, wsink, wterm, wtries, wconn, wfailed, wgone>>
    /\ UNCHANGED exceptWriter

\* elog.main finally: thread.terminate.set()
SignalWriter ==
    /\ ~wterm
    /\ wthread = "running"
    /\ wterm' = TRUE
    /\ UNCHANGED <<wstyle, wqueue, wbatch, wsink, wthread, wtries, wconn, wfailed, wgone>>
    /\ UNCHANGED exceptWriter

-----------------------------------------------------------------------------
(* The GoodWe poller: process_outputs, _send and _receive of               *)
(* modules/goodwe_em.py ("module") and run, _send and _receive of          *)
(* goodwe.py ("plugin")                                                    *)

OFFLINE_TIMEOUT == 30000

\* sleep(10) at the end of a cycle, in seconds
CycleSleep == 10

FC_RESOFF == 128

FC_RESID == 130

FC_RESRUN == 129

FC_RESIGN == 134

\* a function code the protocol does not define
FC_OTHER == 255

PACKET_OVERHEAD == 9

SOCKET_RETRIES == 100

\* a response: header is buffer[0:2] == HEADER, ap and inverter are buffer[2]
\* and buffer[3], crc is the checksum test, fc is buffer[5], declared is
\* buffer[6] and len is len(buffer); here a packet received whole
Response(header, ap, inverter, crc, fc) ==
    [header |-> header, ap |-> ap, inverter |-> inverter, crc |-> crc, fc |-> fc,
     declared |-> 0, len |-> PACKET_OVERHEAD]

\* the first n bytes of a response: recvfrom returned a datagram cut short
Cut(r, n) == [r EXCEPT !.len = n]

\* the well-formed responses of every function code, an offline response of
\* a device with other addresses, and a run response with
\* a bad header, with either address wrong, with a bad checksum, too short
\* to hold buffer[6], and shorter than the length it declares
Responses ==
    {Response(TRUE, 127, 176, TRUE, fc) :
        fc \in {FC_RESOFF, FC_RESID, FC_RESRUN, FC_RESIGN, FC_OTHER}}
    \cup {Response(FALSE, 127, 176, TRUE, FC_RESRUN),
          Response(TRUE, 1, 2, TRUE, FC_RESOFF),
          Response(TRUE, 1, 176, TRUE, FC_RESRUN),
          Response(TRUE, 127, 2, TRUE, FC_RESRUN),
          Response(TRUE, 127, 176, FALSE, FC_RESRUN),
          Cut(Response(TRUE, 127, 176, TRUE, FC_RESRUN), 4),
          Cut(Response(TRUE, 127, 176, TRUE, FC_RESRUN), PACKET_OVERHEAD - 1)}

\* buffer[i - 2] or buffer[i - 1] of _check_valid_response, i = buffer[6] +
\* PACKET_OVERHEAD, is past the end of the buffer: IndexError
IndexRaises(r) ==
    /\ r.len > 6 /\ r.header
    /\ r.ap = ap_address /\ r.inverter = inverter_address
    /\ r.declared + PACKET_OVERHEAD > r.len

\* faulty variant: the addresses of the response are not compared
ValidAnyAddress(r) ==
    /\ r.len > 6 /\ r.header
    /\ r.declared + PACKET_OVERHEAD <= r.len
    /\ r.crc

\* _check_valid_response returns without raising
Valid(r) ==
    /\ r.len > 6 /\ r.header
    /\ r.ap = ap_address /\ r.inverter = inverter_address
    /\ r.declared + PACKET_OVERHEAD <= r.len
    /\ r.crc

\* (millis() - self.statetime) > self.OFFLINE_TIMEOUT at the top of a cycle,
\* every cycle taking its sleep and the time of its queries
Expired == statetime * CycleSleep * 1000 >= OFFLINE_TIMEOUT

\* the device has given no valid response for the time of OFFLINE_TIMEOUT
QuietLong == quiet * CycleSleep * 1000 >= OFFLINE_TIMEOUT

\* faulty variant: _receive lets every exception through
SwallowsNothing(style, exc) == FALSE

\* the except clauses of _receive that do not raise: socket.timeout in both,
\* MalFormedError in goodwe.py
Swallows(style, exc) ==
    \/ exc = "timeout"
    \/ exc = "malformed" /\ style = "plugin"

\* what _check_valid_response and the branches of _receive raise for a
\* response, "none" if nothing: goodwe_em.py raises RuntimeError from the
\* check and calls get on idinfo = None in _run; goodwe.py raises
\* MalFormedError from the check and for an unknown function code
Raised(style, r) ==
    IF IndexRaises(r) THEN "index"
    ELSE IF ~Valid(r) THEN (IF style = "plugin" THEN "malformed" ELSE "runtime")
    ELSE IF r.fc = FC_RESRUN /\ ~idinfo /\ style = "module" THEN "attribute"
    ELSE IF r.fc \notin {FC_RESOFF, FC_RESID, FC_RESRUN, FC_RESIGN} /\ style = "plugin"
         THEN "malformed"
    ELSE "none"

\* the kind of a response, for the history
Kind(r) ==
    IF r.len <= 6 THEN "short"
    ELSE IF ~r.header THEN "header"
    ELSE IF r.ap # ap_address \/ r.inverter # inverter_address THEN "address"
    ELSE IF r.declared + PACKET_OVERHEAD > r.len THEN "cut"
    ELSE IF ~r.crc THEN "crc"
    ELSE IF r.fc = FC_RESRUN THEN "run"
    ELSE IF r.fc = FC_RESID THEN "id"
    ELSE IF r.fc = FC_RESOFF THEN "offline"
    ELSE IF r.fc = FC_RESIGN THEN "ignored"
    ELSE "unknown"

\* the response answers the query _receive waits for: break
Answers(r, query) ==
    \/ r.fc = FC_RESRUN /\ query = "run"
    \/ r.fc = FC_RESID /\ query = "id"
    \/ r.fc = FC_RESOFF /\ query = "offline"

\* _run hands a reading on: the serial number and the model are known
Forwards(r) == r.fc = FC_RESRUN /\ idinfo

\* where the cycle goes on when _receive has returned for the query
AfterQuery(query) ==
    CASE query = "offline" -> "send_id"
      [] query = "id" -> "send_run"
      [] query = "run" -> "sleep"

\* _receive returns for the query of gpc: after the id query state becomes
\* RUNNING and statetime is set
ReceiveReturns ==
    /\ gpc' = AfterQuery(gpc)
    /\ IF gpc = "id"
       THEN state' = "RUNNING" /\ statetime' = 0
       ELSE UNCHANGED <<state, statetime>>

\* the top of process_outputs, up to the first query
BeginCycle ==
    /\ gthread = "running"
    /\ gpc = "top"
    /\ ~gterm
    /\ state' = IF Expired THEN "OFFLINE" ELSE state
    /\ gpc' = IF state' = "OFFLINE" THEN "send_offline" ELSE "send_run"
    /\ glast' = None
    /\ UNCHANGED <<quiet, retry>>
    /\ UNCHANGED <<gstyle, statetime, idinfo, ap_address, inverter_address, gthread, gterm>>
    /\ UNCHANGED exceptPoller

\* faulty variant: the last of the allowed retries is not made
GivesUpEarly(n) == n >= SOCKET_RETRIES

\* if retry > self.SOCKET_RETRIES: raise
GivesUp(n) == n > SOCKET_RETRIES

\* _send_udp: one sendto of the query. It succeeds (ok), break, and _receive
\* is entered; or it raises OSError, retry += 1, and either the loop goes on
\* after sleep(SOCKET_RETRIES_DELAY) or RuntimeError is raised, which _send
\* logs and raises and which ends the thread
SendQuery(ok) ==
    /\ gthread = "running"
    /\ gpc \in {"send_offline", "send_id", "send_run"}
    /\ IF ok
       THEN /\ gpc' = CASE gpc = "send_offline" -> "offline"
                         [] gpc = "send_id" -> "id"
                         [] gpc = "send_run" -> "run"
            /\ retry' = 0
            /\ glast' = [kind |-> "sent", query |-> gpc', state |-> state,
                         forwarded |-> FALSE, raised |-> "none", sends |-> retry + 1]
            /\ UNCHANGED gthread
       ELSE /\ retry' = retry + 1
            /\ gthread' = IF GivesUp(retry') THEN "exited" ELSE gthread
            /\ glast' = None
            /\ UNCHANGED gpc
    /\ UNCHANGED quiet
    /\ UNCHANGED <<gstyle, state, statetime, idinfo, ap_address, inverter_address, gterm>>
    /\ UNCHANGED exceptPoller

\* _receive: a response arrives
Receive(r) ==
    /\ gthread = "running"
    /\ gpc \in {"offline", "id", "run"}
    /\ LET exc == Raised(gstyle, r)
       IN  /\ glast' = [kind |-> Kind(r), query |-> gpc, state |-> state,
                        forwarded |-> exc = "none" /\ Forwards(r), raised |-> exc]
           /\ IF exc = "none"
              THEN /\ idinfo' = (idinfo \/ r.fc = FC_RESID)
                   /\ IF r.fc = FC_RESOFF
                      THEN ap_address' = r.ap /\ inverter_address' = r.inverter
                      ELSE UNCHANGED <<ap_address, inverter_address>>
                   /\ IF Answers(r, gpc)
                      THEN ReceiveReturns
                      ELSE UNCHANGED <<gpc, state, statetime>>
                   /\ UNCHANGED gthread
              ELSE IF Swallows(gstyle, exc)
              THEN /\ ReceiveReturns
                   /\ UNCHANGED <<idinfo, ap_address, inverter_address, gthread>>
              ELSE /\ gthread' = "exited"
                   /\ UNCHANGED <<gpc, state, statetime, idinfo, ap_address,
                                  inverter_address>>
    /\ quiet' = IF Raised(gstyle, r) = "none" THEN 0 ELSE quiet
    /\ UNCHANGED <<gstyle, gterm, retry>>
    /\ UNCHANGED exceptPoller

\* _receive: recvfrom raises socket.timeout after 0.5 s
Timeout ==
    /\ gthread = "running"
    /\ gpc \in {"offline", "id", "run"}
    /\ glast' = [kind |-> "timeout", query |-> gpc, state |-> state,
                 forwarded |-> FALSE, raised |-> "timeout"]
    /\ IF Swallows(gstyle, "timeout")
       THEN ReceiveReturns /\ UNCHANGED gthread
       ELSE gthread' = "exited" /\ UNCHANGED <<gpc, state, statetime>>
    /\ UNCHANGED <<gstyle, idinfo, ap_address, inverter_address, gterm, quiet, retry>>
    /\ UNCHANGED exceptPoller

\* sleep(10) at the end of the cycle
Sleep ==
    /\ gthread = "running"
    /\ gpc = "sleep"
    /\ gpc' = "top"
    /\ statetime' = IF Expired THEN statetime ELSE statetime + 1
    /\ glast' = None
    /\ UNCHANGED retry
    /\ quiet' = IF QuietLong THEN quiet ELSE quiet + 1
    /\ UNCHANGED <<gstyle, state, idinfo, ap_address, inverter_address, gthread, gterm>>
    /\ UNCHANGED exceptPoller

\* run: while not self.terminate.is_set() ends the loop
PollerStops ==
    /\ gthread = "running"
    /\ gpc = "top"
    /\ gterm
    /\ gthread' = "exited"
    /\ glast' = None
    /\ UNCHANGED <<quiet, retry>>
    /\ UNCHANGED <<gstyle, gpc, state, statetime, idinfo, ap_address, inverter_address, gterm>>
    /\ UNCHANGED exceptPoller

\* elog.main finally: thread.terminate.set()
SignalPoller ==
    /\ gthread = "running"
    /\ ~gterm
    /\ gterm' = TRUE
    /\ UNCHANGED <<gstyle, gpc, state, statetime, idinfo, ap_address, inverter_address,
                   gthread, glast, quiet, retry>>
    /\ UNCHANGED exceptPoller

-----------------------------------------------------------------------------
(* The lasttariff tables of two module instances, each with a thread of    *)
(* its own: __init__, write_tariff and process_tariff of lib/abstract.py,  *)
(* write_tariff taken in its two parts                                     *)

Instances == {1, 2}

\* faulty variant: lasttariff is one dict of the class
ClassDict(h) == 1

\* self.lasttariff = dict(): a new object
NewDict(h) == Len(h) + 1

\* dict()
EmptyDict == [m \in Meters |-> None]

\* elog.main: Module(module, schema, database, tariff); instance.start(),
\* one module after the other
Construct(i) ==
    /\ opc[i] = "new"
    /\ \A j \in Instances : j < i => opc[j] # "new"
    /\ LET d == NewDict(heap)
       IN  /\ heap' = IF d > Len(heap) THEN Append(heap, EmptyDict) ELSE heap
           /\ olasttariff' = [olasttariff EXCEPT ![i] = d]
    /\ opc' = [opc EXCEPT ![i] = "idle"]
    /\ UNCHANGED <<oid, odone, oaccess>>
    /\ UNCHANGED exceptOwners

\* write_tariff, first part: self.lasttariff.get(kwargs['id'], None) and the charge
ReadLast(i, id) ==
    /\ opc[i] = "idle"
    /\ odone[i] < MaxWrites
    /\ opc' = [opc EXCEPT ![i] = "charged"]
    /\ oid' = [oid EXCEPT ![i] = id]
    /\ oaccess' = oaccess \cup {[thread |-> i, table |-> olasttariff[i], op |-> "get"]}
    /\ UNCHANGED <<heap, olasttariff, odone>>
    /\ UNCHANGED exceptOwners

\* write_tariff, second part: process_tariff stores self.lasttariff[kwargs['id']]
StoreLast(i) ==
    /\ opc[i] = "charged"
    /\ heap' = [heap EXCEPT ![olasttariff[i]][oid[i]] = [by |-> i, n |-> odone[i] + 1]]
    /\ oaccess' = oaccess \cup {[thread |-> i, table |-> olasttariff[i], op |-> "store"]}
    /\ opc' = [opc EXCEPT ![i] = "idle"]
    /\ oid' = [oid EXCEPT ![i] = None]
    /\ odone' = [odone EXCEPT ![i] = @ + 1]
    /\ UNCHANGED olasttariff
    /\ UNCHANGED exceptOwners

-----------------------------------------------------------------------------
(* The plugins of abstract.py on their queues: _data_send of a collector,  *)
(* and run and _process_queue of a database plugin, with the formatters    *)
(* both were constructed with                                              *)

\* self.queues.items(): the queue names in the order of the configuration
QueueNames == <<"q1", "q2">>

\* AbstractFormatter.__init__(myname, queuename)
Formatter(myname, queuename) == [name |-> myname, queuename |-> queuename]

\* the lists of formatters: none, one for either queue, one for each queue
\* in both orders
FormatterLists ==
    {<<>>,
     <<Formatter("f1", "q1")>>,
     <<Formatter("f2", "q2")>>,
     <<Formatter("f1", "q1"), Formatter("f2", "q2")>>,
     <<Formatter("f2", "q2"), Formatter("f1", "q1")>>}

\* the reading n as the collector built it
Original(n) == [reading |-> n, applied |-> <<>>]

\* formatter.do_formatting(data): the result is made from data by f
do_formatting(f, data) == [data EXCEPT !.applied = Append(@, f.name)]

\* for formatter in self.formatters: if formatter.get_queuename() ==
\* queuename: data = formatter.do_formatting(data), from formatter k on
RECURSIVE FormatFor(_, _, _)
FormatFor(k, queuename, data) ==
    IF k > Len(formatters) THEN data
    ELSE FormatFor(k + 1, queuename,
                   IF formatters[k].queuename = queuename
                   THEN do_formatting(formatters[k], data)
                   ELSE data)

\* self.queues of a collector: it outputs to both queues or to one of them
Outputs == {QueueNames, <<"q1">>, <<"q2">>}

\* faulty variant: every queue is served from the data handed in
RECURSIVE FanOutFromOriginal(_, _, _, _)
FanOutFromOriginal(outs, k, data, qs) ==
    IF k > Len(outs) THEN qs
    ELSE FanOutFromOriginal(outs, k + 1, data,
             [qs EXCEPT ![outs[k]] = Append(@, FormatFor(1, outs[k], data))])

\* the loop of _data_send over the queues outs of the collector, from queue
\* k on: data is what the formatters of the queues before have made of the
\* reading
RECURSIVE FanOut(_, _, _, _)
FanOut(outs, k, data, qs) ==
    IF k > Len(outs) THEN qs
    ELSE LET d == FormatFor(1, outs[k], data)
         IN  FanOut(outs, k + 1, d, [qs EXCEPT ![outs[k]] = Append(@, d)])

\* the formatter run passes to the listener of the queue: the loop variable
\* of 'for formatter in self.formatters' after the loop, which is the first
\* formatter of the queue, the last formatter of the list if there is none,
\* and None for an empty list
RECURSIVE ListenFormatterFrom(_, _)
ListenFormatterFrom(k, queuename) ==
    IF k > Len(formatters) THEN (IF formatters = <<>> THEN None ELSE formatters[Len(formatters)])
    ELSE IF formatters[k].queuename = queuename THEN formatters[k]
    ELSE ListenFormatterFrom(k + 1, queuename)

ListenFormatter(queuename) == ListenFormatterFrom(1, queuename)

\* faulty variant: data_callback is called whatever the formatter
HandsOnAlways(formatter, queuename) == TRUE

\* _process_queue calls data_callback: if formatter is not None: if
\* formatter.get_queuename() == queuename
HandsOn(formatter, queuename) ==
    formatter # None /\ formatter.queuename = queuename

\* faulty variant: join returns while the listener is alive
JoinedAtOnce(queuename) == TRUE

\* thread.join() returns
Joined(queuename) == queuename \notin alive

\* AbstractCollector._data_send(data) of a collector with the queues outs,
\* with the next reading
DataSend(outs) ==
    /\ Len(sent) < MaxSends
    /\ sent' = Append(sent, [data |-> Original(Len(sent) + 1), outs |-> outs])
    /\ queues' = FanOut(outs, 1, Original(Len(sent) + 1), queues)
    /\ UNCHANGED <<formatters, rpc, ridx, alive, taken, dbsink, rounds, dterm, dthread>>
    /\ UNCHANGED exceptQueues

\* run: while not self.terminate.is_set(), into the for loop
BeginRound ==
    /\ dthread = "running"
    /\ rpc = "while"
    /\ ~dterm
    /\ rounds < MaxRounds
    /\ rounds' = rounds + 1
    /\ rpc' = "start"
    /\ ridx' = 1
    /\ UNCHANGED <<formatters, queues, sent, alive, taken, dbsink, dterm, dthread>>
    /\ UNCHANGED exceptQueues

\* run: thread.start() of the listener of the queue the loop is at
StartListener ==
    /\ dthread = "running"
    /\ rpc = "start"
    /\ alive' = alive \cup {QueueNames[ridx]}
    /\ rpc' = "join"
    /\ UNCHANGED <<formatters, queues, sent, ridx, taken, dbsink, rounds, dterm, dthread>>
    /\ UNCHANGED exceptQueues

\* _process_queue: queue.get returns an entry; it is formatted and handed to
\* data_callback, or neither, and the listener ends
ListenerGets(q) ==
    /\ q \in alive
    /\ queues[q] # <<>>
    /\ LET data == Head(queues[q])
           formatter == ListenFormatter(q)
       IN  /\ queues' = [queues EXCEPT ![q] = Tail(@)]
           /\ taken' = Append(taken, [queue |-> q, data |-> data, round |-> rounds])
           /\ dbsink' = IF HandsOn(formatter, q)
                        THEN Append(dbsink, [queue |-> q, data |-> do_formatting(formatter, data)])
                        ELSE dbsink
    /\ alive' = alive \ {q}
    /\ UNCHANGED <<formatters, sent, rpc, ridx, rounds, dterm, dthread>>
    /\ UNCHANGED exceptQueues

\* _process_queue: queue.get raises Empty after QUEUE_TIMEOUT, the listener ends
ListenerTimesOut(q) ==
    /\ q \in alive
    /\ queues[q] = <<>>
    /\ alive' = alive \ {q}
    /\ UNCHANGED <<formatters, queues, sent, rpc, ridx, taken, dbsink, rounds, dterm, dthread>>
    /\ UNCHANGED exceptQueues

\* run: thread.join() returns and the for loop goes on, or is over
JoinReturns ==
    /\ dthread = "running"
    /\ rpc = "join"
    /\ Joined(QueueNames[ridx])
    /\ IF ridx < Len(QueueNames)
       THEN ridx' = ridx + 1 /\ rpc' = "start"
       ELSE ridx' = 0 /\ rpc' = "while"
    /\ UNCHANGED <<formatters, queues, sent, alive, taken, dbsink, rounds, dterm, dthread>>
    /\ UNCHANGED exceptQueues

\* run: while not self.terminate.is_set() ends the loop
DatabaseStops ==
    /\ dthread = "running"
    /\ rpc = "while"
    /\ dterm
    /\ dthread' = "exited"
    /\ UNCHANGED <<formatters, queues, sent, rpc, ridx, alive, taken, dbsink, rounds, dterm>>
    /\ UNCHANGED exceptQueues

\* the owner of the plugin sets its terminate event
SignalDatabase ==
    /\ dthread = "running"
    /\ ~dterm
    /\ dterm' = TRUE
    /\ UNCHANGED <<formatters, queues, sent, rpc, ridx, alive, taken, dbsink, rounds, dthread>>
    /\ UNCHANGED exceptQueues

-----------------------------------------------------------------------------
(* The Enistic poller: process_outputs of modules/enistic.py. Times are in  *)
(* seconds as enistic_time_to_now returns them.                            *)

\* the times of the device clock in the packets
DeviceTimes == 1..3

\* round(time.time()) - enistic_time_to_now(...) of a 'Status:TimeNow' packet
Offsets == {10, 11}

\* the channels in the packets: 1 and 2 are meters of the configuration, 9 is not
Channels == {1, 2, 9}

\* filter(lambda meter: meter['channel'] == ..., self.module['meter']): the
\* meters of the channel
MetersOf(channel) ==
    CASE channel = 1 -> <<"m1">>
      [] channel = 2 -> <<"m2">>
      [] OTHER -> <<>>

\* a 'D1' packet: the device time, the number of tokens and the channel
ReadingPacket(devtime, tokens, channel) ==
    [devtime |-> devtime, tokens |-> tokens, channel |-> channel]

ReadingPackets ==
    {ReadingPacket(t, 6, c) : t \in DeviceTimes, c \in Channels}
    \cup {ReadingPacket(1, 5, 1)}

\* faulty variant: the time is remembered for each meter, none is shared
SameAsLastNever(reading_time) == FALSE

\* not (reading_time != self.last_reading_time)
SameAsLast(reading_time) == reading_time = last_reading_time

\* process_outputs with a 'D1' packet; werr: write_meter_reading raises
ReceiveReading(p, werr) ==
    /\ ethread = "running"
    /\ Len(eforwarded) < MaxForwards
    /\ IF enistic_time_offset = None
       THEN \* the else branch: none of its three searches matches
            /\ elast' = [did |-> "no_offset", id |-> None]
            /\ UNCHANGED <<last_reading_time, ethread, eforwarded>>
       ELSE LET reading_time == p.devtime + enistic_time_offset.seconds
            IN  IF p.tokens < 6
                THEN /\ elast' = [did |-> "short", id |-> None]
                     /\ UNCHANGED <<last_reading_time, ethread, eforwarded>>
                ELSE IF MetersOf(p.channel) = <<>>
                THEN \* [0] raises IndexError: pass
                     /\ elast' = [did |-> "no_meter", id |-> None]
                     /\ UNCHANGED <<last_reading_time, ethread, eforwarded>>
                ELSE IF SameAsLast(reading_time)
                THEN /\ elast' = [did |-> "duplicate", id |-> MetersOf(p.channel)[1]]
                     /\ UNCHANGED <<last_reading_time, ethread, eforwarded>>
                ELSE /\ eforwarded' = Append(eforwarded,
                                             [time |-> reading_time * 1000,
                                              id |-> MetersOf(p.channel)[1]])
                     /\ IF werr
                        THEN /\ ethread' = "exited"
                             /\ elast' = [did |-> "failed", id |-> MetersOf(p.channel)[1]]
                             /\ UNCHANGED last_reading_time
                        ELSE /\ last_reading_time' = reading_time
                             /\ elast' = [did |-> "forwarded", id |-> MetersOf(p.channel)[1]]
                             /\ UNCHANGED ethread
    /\ UNCHANGED <<enistic_time_offset, serial_number, model_name>>
    /\ UNCHANGED exceptEnistic

\* process_outputs with a 'Status:TimeNow' packet
ReceiveTime(offset) ==
    /\ ethread = "running"
    /\ enistic_time_offset' = [seconds |-> offset]
    /\ elast' = [did |-> "time", id |-> None]
    /\ UNCHANGED <<last_reading_time, serial_number, model_name, ethread, eforwarded>>
    /\ UNCHANGED exceptEnistic

\* process_outputs with a 'Core:Serial' or a 'Status:Model' packet
ReceiveInfo(serial) ==
    /\ ethread = "running"
    /\ IF serial
       THEN serial_number' = TRUE /\ UNCHANGED model_name
       ELSE model_name' = TRUE /\ UNCHANGED serial_number
    /\ elast' = [did |-> "info", id |-> None]
    /\ UNCHANGED <<enistic_time_offset, last_reading_time, ethread, eforwarded>>
    /\ UNCHANGED exceptEnistic

-----------------------------------------------------------------------------
(* Specifications *)

\* Module.__init__ of the Enistic poller
EnisticStart ==
    /\ enistic_time_offset = None
    /\ last_reading_time = 0
    /\ serial_number = FALSE
    /\ model_name = FALSE
    /\ ethread = "running"
    /\ eforwarded = <<>>
    /\ elast = None

\* the plugins of abstract.py constructed with the formatters fs
QueuesStart(fs) ==
    /\ formatters = fs
    /\ queues = [q \in {QueueNames[k] : k \in DOMAIN QueueNames} |-> <<>>]
    /\ sent = <<>>
    /\ rpc = "while"
    /\ ridx = 0
    /\ alive = {}
    /\ taken = <<>>
    /\ dbsink = <<>>
    /\ rounds = 0
    /\ dterm = FALSE
    /\ dthread = "running"

QueuesIdle == QueuesStart(<<>>)

\* no module instance yet
OwnersIdle ==
    /\ heap = <<>>
    /\ olasttariff = [i \in Instances |-> 0]
    /\ opc = [i \in Instances |-> "new"]
    /\ oid = [i \in Instances |-> None]
    /\ odone = [i \in Instances |-> 0]
    /\ oaccess = {}

\* Module.__init__ of the poller
PollerStart(style) ==
    /\ gstyle = style
    /\ gpc = "top"
    /\ state = "OFFLINE"
    /\ statetime = 0
    /\ idinfo = FALSE
    /\ ap_address = 127
    /\ inverter_address = 176
    /\ gthread = "running"
    /\ gterm = FALSE
    /\ glast = None
    /\ quiet = 0
    /\ retry = 0

WriterIdle ==
    /\ wstyle = "plugin"
    /\ wqueue = <<>>
    /\ wbatch = <<>>
    /\ wsink = <<>>
    /\ wthread = "running"
    /\ wterm = FALSE
    /\ wtries = 0
    /\ wconn = {}
    /\ wfailed = {}
    /\ wgone = {}

TariffIdle ==
    /\ tariff = <<>>
    /\ lasttariff = [m \in Meters |-> None]
    /\ sink = <<>>
    /\ readings = <<>>
    /\ charges = <<>>
    /\ before = <<>>
    /\ raised = FALSE
    /\ valueerror = FALSE
    /\ loaded = "running"

SupervisorStart(c) ==
    /\ config = c
    /\ pc = "start"
    /\ started = 0
    /\ started_threads = {}
    /\ thread = [i \in DOMAIN c.module |-> "new"]
    /\ terminate = [i \in DOMAIN c.module |-> FALSE]
    /\ qsize = [i \in DOMAIN c.module |-> 0]
    /\ joining = <<>>
    /\ ticked = None
    /\ exit_status = None

\* one module processing readings
Init ==
    /\ tariff \in Tariffs
    /\ lasttariff = [m \in Meters |-> None]
    /\ sink = <<>>
    /\ readings = <<>>
    /\ charges = <<>>
    /\ before = <<>>
    /\ raised = FALSE
    /\ valueerror = FALSE
    /\ loaded = "running"
    /\ SupervisorStart(NoConfig)
    /\ WriterIdle
    /\ PollerStart("module")
    /\ OwnersIdle
    /\ QueuesIdle
    /\ EnisticStart

Next == \E kwargs \in Readings, rerr \in BOOLEAN, terr \in BOOLEAN :
            WriteMeterReading(kwargs, rerr, terr)

Spec == Init /\ [][Next]_vars

\* one module processing readings under definitions with and without a policy
PolicyInit ==
    /\ tariff \in PolicyTariffs
    /\ lasttariff = [m \in Meters |-> None]
    /\ sink = <<>>
    /\ readings = <<>>
    /\ charges = <<>>
    /\ before = <<>>
    /\ raised = FALSE
    /\ valueerror = FALSE
    /\ loaded = "running"
    /\ SupervisorStart(NoConfig)
    /\ WriterIdle
    /\ PollerStart("module")
    /\ OwnersIdle
    /\ QueuesIdle
    /\ EnisticStart

PolicyNext == \E kwargs \in Readings, rerr \in BOOLEAN, terr \in BOOLEAN :
                  WriteMeterReading(kwargs, rerr, terr)

PolicySpec == PolicyInit /\ [][PolicyNext]_vars

\* a configuration file, well formed or not, from load to the readings
LoadInit ==
    /\ tariff \in Tariffs \cup MalformedTariffs
    /\ lasttariff = [m \in Meters |-> None]
    /\ sink = <<>>
    /\ readings = <<>>
    /\ charges = <<>>
    /\ before = <<>>
    /\ raised = FALSE
    /\ valueerror = FALSE
    /\ loaded = "config"
    /\ SupervisorStart(NoConfig)
    /\ WriterIdle
    /\ PollerStart("module")
    /\ OwnersIdle
    /\ QueuesIdle
    /\ EnisticStart

LoadNext ==
    \/ \E ok \in BOOLEAN : LoadConfig(ok)
    \/ \E kwargs \in Readings, rerr \in BOOLEAN, terr \in BOOLEAN :
           WriteMeterReading(kwargs, rerr, terr)

LoadSpec == LoadInit /\ [][LoadNext]_vars

\* the supervisor and the threads of its modules
SupInit ==
    /\ TariffIdle
    /\ WriterIdle
    /\ PollerStart("module")
    /\ OwnersIdle
    /\ QueuesIdle
    /\ EnisticStart
    /\ \E c \in Configs : SupervisorStart(c)

SupNext ==
    \/ \E ok \in BOOLEAN : StartModule(ok)
    \/ \E ok \in BOOLEAN : StartWebServer(ok)
    \/ \E i \in Modules : UnitThrows(i)
    \/ \E i \in Modules : UnitStops(i)
    \/ \E i \in Modules : UnitBlocks(i)
    \/ \E i \in Modules : UnitResumes(i)
    \/ \E q \in Modules : Push(q)
    \/ \E q \in Modules : Pop(q)
    \/ Tick
    \/ Terminate
    \/ Join
    \/ Terminated

SupSpec == SupInit /\ [][SupNext]_vars

\* one writing unit and the entries that come to it
WriterInit ==
    /\ TariffIdle
    /\ SupervisorStart(NoConfig)
    /\ PollerStart("module")
    /\ OwnersIdle
    /\ QueuesIdle
    /\ EnisticStart
    /\ wstyle \in {"plugin", "database"}
    /\ wqueue \in (IF wstyle = "plugin" THEN Batches(1) ELSE {Singles})
    /\ wbatch = <<>>
    /\ wsink = <<>>
    /\ wthread = "running"
    /\ wterm = FALSE
    /\ wtries = 0
    /\ wconn = {}
    /\ wfailed = {}
    /\ wgone = {}

WriterNext ==
    \/ Dequeue
    \/ WriteOk
    \/ WriteConnectionError
    \/ WriteFails
    \/ Abandon
    \/ WriterStops
    \/ SignalWriter

WriterSpec == WriterInit /\ [][WriterNext]_vars

\* one GoodWe poller and what its socket delivers
PollerInit ==
    /\ TariffIdle
    /\ SupervisorStart(NoConfig)
    /\ WriterIdle
    /\ \E style \in {"module", "plugin"} : PollerStart(style)
    /\ OwnersIdle
    /\ QueuesIdle
    /\ EnisticStart

PollerNext ==
    \/ BeginCycle
    \/ \E ok \in BOOLEAN : SendQuery(ok)
    \/ \E r \in Responses : Receive(r)
    \/ Timeout
    \/ Sleep
    \/ PollerStops
    \/ SignalPoller

PollerSpec == PollerInit /\ [][PollerNext]_vars

\* two module instances and their threads
OwnersInit ==
    /\ TariffIdle
    /\ SupervisorStart(NoConfig)
    /\ WriterIdle
    /\ PollerStart("module")
    /\ OwnersIdle
    /\ QueuesIdle
    /\ EnisticStart

OwnersNext ==
    \/ \E i \in Instances : Construct(i)
    \/ \E i \in Instances, id \in Meters : ReadLast(i, id)
    \/ \E i \in Instances : StoreLast(i)

OwnersSpec == OwnersInit /\ [][OwnersNext]_vars

\* a collector and a database plugin on two queues
QueuesInit ==
    /\ TariffIdle
    /\ SupervisorStart(NoConfig)
    /\ WriterIdle
    /\ PollerStart("module")
    /\ OwnersIdle
    /\ \E fs \in FormatterLists : QueuesStart(fs)
    /\ EnisticStart

QueuesNext ==
    \/ \E outs \in Outputs : DataSend(outs)
    \/ BeginRound
    \/ StartListener
    \/ \E q \in {QueueNames[k] : k \in DOMAIN QueueNames} : ListenerGets(q)
    \/ \E q \in {QueueNames[k] : k \in DOMAIN QueueNames} : ListenerTimesOut(q)
    \/ JoinReturns
    \/ DatabaseStops
    \/ SignalDatabase

QueuesSpec == QueuesInit /\ [][QueuesNext]_vars

\* the Enistic poller and the packets that come to it
EnisticInit ==
    /\ TariffIdle
    /\ SupervisorStart(NoConfig)
    /\ WriterIdle
    /\ PollerStart("module")
    /\ OwnersIdle
    /\ QueuesIdle
    /\ EnisticStart

EnisticNext ==
    \/ \E p \in ReadingPackets, werr \in BOOLEAN : ReceiveReading(p, werr)
    \/ \E offset \in Offsets : ReceiveTime(offset)
    \/ \E serial \in BOOLEAN : ReceiveInfo(serial)

EnisticSpec == EnisticInit /\ [][EnisticNext]_vars

-----------------------------------------------------------------------------
(* Properties of the tariff accumulator, checked under Spec *)

\* reading n was processed to the end of write_tariff
Completed(n) == ~(raised /\ n = Len(readings))

\* the state table as reading n left it
After(n) == IF n < Len(readings) THEN before[n + 1] ELSE lasttariff

\* start of a window in seconds into the day
StartOfDay(w) == 3600 * w.start[1] + 60 * w.start[2] + w.start[3]

\* floor(time / 1000) mod 86400
AtOfDay(k) == (k.time \div 1000) % 86400

\* the policy of definition d admits the sign of reading k
SignAdmitted(d, k) ==
    CASE d.meter.meter_values = "positive" -> k.reading >= 0
      [] d.meter.meter_values = "negative" -> k.reading < 0
      [] OTHER -> TRUE

SameMeter(d, k) == d.meter.id = k.id /\ d.meter.source = k.source

Compatible(d, k) == SameMeter(d, k) /\ SignAdmitted(d, k)

\* definition j is the last one of the configuration that reading k matches
LastMatching(j, k) ==
    /\ Compatible(tariff[j], k)
    /\ \A j2 \in DOMAIN tariff : j2 > j => ~Compatible(tariff[j2], k)

SortedByStart(rate) ==
    \A a, b \in DOMAIN rate : a < b => StartOfDay(rate[a]) < StartOfDay(rate[b])

\* state st holds the rate, label, tax and rateid of window w
HoldsWindow(st, w) ==
    /\ st # None
    /\ st.rate = Rat(w.amount * (100 + w.tax), 360000)
    /\ st.tariff = <<w.amount, w.unit>>
    /\ st.tax = w.tax
    /\ st.rateid = w.rateid

\* the reading of the same meter id processed just before reading n, 0 if none
PrevOf(n) ==
    LET S == {m \in 1..(n - 1) : readings[m].id = readings[n].id}
    IN  IF S = {} THEN 0 ELSE CHOOSE m \in S : \A m2 \in S : m2 <= m

\* the latest earlier reading of the same meter id that matched a definition
PrevStored(n) ==
    LET S == {m \in 1..(n - 1) :
                /\ readings[m].id = readings[n].id
                /\ \E j \in DOMAIN tariff : Compatible(tariff[j], readings[m])}
    IN  IF S = {} THEN 0 ELSE CHOOSE m \in S : \A m2 \in S : m2 <= m

\* abs(r / 1000 * R * dt / 1000)
Expected(r, R, dt) == RAbs(RMul(Rat(r, 1000), RMul(R, Rat(dt, 1000))))

\* C1: with windows sorted by start and a reading at or after the earliest
\* start, the stored rate, label, tax and rateid are those of the window with
\* the greatest start <= at; a reading exactly at a start selects that window.
C1_GreatestStart ==
    \A n \in DOMAIN readings : \A j \in DOMAIN tariff :
        LET k  == readings[n]
            d  == tariff[j]
            at == AtOfDay(k)
        IN  (/\ Completed(n)
             /\ LastMatching(j, k)
             /\ SortedByStart(d.rate)
             /\ at >= StartOfDay(d.rate[1]))
            => \E w \in DOMAIN d.rate :
                 /\ HoldsWindow(After(n)[k.id], d.rate[w])
                 /\ StartOfDay(d.rate[w]) <= at
                 /\ \A w2 \in DOMAIN d.rate :
                      ~(StartOfDay(d.rate[w]) < StartOfDay(d.rate[w2])
                        /\ StartOfDay(d.rate[w2]) <= at)

\* a reading at exactly 06:00:00 stored the window that starts at 06:00:00,
\* and one at 06:30:00 of the next day the window that starts at 06:15:00
C1_Witness ==
    /\ tariff = LateStartTariff
    /\ Len(readings) = 2
    /\ ~raised
    /\ readings[1] = Reading(21600000, "s1", "m1", 2000)
    /\ before[2]["m1"].rateid = "b"
    /\ readings[2] = Reading(109800999, "s1", "m1", 2000)
    /\ lasttariff["m1"].rateid = "c"

\* C2: a reading whose time of day is before the start of every window stores
\* the rate, label, tax and rateid of the last window of the list.
C2_WrapToLastWindow ==
    \A n \in DOMAIN readings : \A j \in DOMAIN tariff :
        LET k  == readings[n]
            d  == tariff[j]
            at == AtOfDay(k)
        IN  (/\ Completed(n)
             /\ LastMatching(j, k)
             /\ \A w \in DOMAIN d.rate : at < StartOfDay(d.rate[w]))
            => HoldsWindow(After(n)[k.id], d.rate[Len(d.rate)])

\* C3: a reading whose sign no definition of its meter admits emits no charge
\* and leaves the state of the meter unchanged.
C3_MismatchIgnored ==
    \A n \in DOMAIN readings :
        LET k == readings[n]
        IN  (/\ Completed(n)
             /\ \E j \in DOMAIN tariff : SameMeter(tariff[j], k)
             /\ \A j \in DOMAIN tariff : ~Compatible(tariff[j], k))
            => /\ charges[n] = None
               /\ After(n)[k.id] = before[n][k.id]

\* C4 as stated: the charge of a reading is computed over the time since the
\* reading of the same meter just before it, at the rate stored then.
C4_ConsecutiveAmount ==
    \A n \in DOMAIN readings :
        LET m == PrevOf(n)
        IN  (/\ m > 0
             /\ charges[n] # None
             /\ readings[m].time < readings[n].time)
            => /\ After(m)[readings[n].id] # None
               /\ charges[n].amount =
                    Expected(readings[n].reading, After(m)[readings[n].id].rate,
                             readings[n].time - readings[m].time)

\* C4 as amended: the charge of a reading is computed over the time since the
\* latest earlier reading of the meter that matched a definition (the one that
\* stored the state), at the rate stored then.
C4_AmountSinceStored ==
    \A n \in DOMAIN readings :
        LET m == PrevStored(n)
        IN  (/\ m > 0
             /\ charges[n] # None
             /\ readings[m].time < readings[n].time)
            => /\ After(m)[readings[n].id] # None
               /\ charges[n].amount =
                    Expected(readings[n].reading, After(m)[readings[n].id].rate,
                             readings[n].time - readings[m].time)

\* a charge over an interval that skips a reading which matched no definition
C4_Witness ==
    /\ Len(readings) = 3
    /\ charges[3] # None
    /\ PrevStored(3) = 1
    /\ PrevOf(3) = 2
    /\ readings[1].time < readings[2].time
    /\ readings[2].time < readings[3].time

\* C5: the first reading processed for a meter id produces no charge.
C5_FirstReadingNoCharge ==
    \A n \in DOMAIN readings : PrevOf(n) = 0 => charges[n] = None

\* a first reading of a meter, not zero and matching a definition, processed
\* while another meter already has a stored state
C5_Witness ==
    \E n \in DOMAIN readings :
        /\ PrevOf(n) = 0
        /\ readings[n].reading # 0
        /\ \E j \in DOMAIN tariff : Compatible(tariff[j], readings[n])
        /\ \E m \in Meters : before[n][m] # None
        /\ Completed(n)

\* C6 as stated: after any reading of a meter a state of the meter exists and
\* holds the time and value of that reading.
C6_StateFollowsEveryReading ==
    \A n \in DOMAIN readings :
        LET k == readings[n]
        IN  Completed(n)
            => /\ After(n)[k.id] # None
               /\ After(n)[k.id].time = k.time
               /\ After(n)[k.id].reading = k.reading

\* C6 as amended: after a reading that matches a definition the state of the
\* meter holds the time and value of that reading; a reading that matches no
\* definition leaves the state of the meter as it was.
C6_StateFollowsMatchingReading ==
    \A n \in DOMAIN readings :
        LET k == readings[n]
        IN  Completed(n)
            => IF \E j \in DOMAIN tariff : Compatible(tariff[j], k)
               THEN /\ After(n)[k.id] # None
                    /\ After(n)[k.id].time = k.time
                    /\ After(n)[k.id].reading = k.reading
               ELSE After(n)[k.id] = before[n][k.id]

\* a state created by a first reading and updated by a later reading of 0
C6_Witness ==
    /\ Len(readings) = 2
    /\ ~raised
    /\ readings[1].id = "m1"
    /\ before[2]["m1"] # None
    /\ readings[2] = Reading(3600000, "s1", "m1", 0)
    /\ lasttariff["m1"].time = 3600000
    /\ lasttariff["m1"].reading = 0

\* C7: every createMeterTariff mutation carries an amount > 0.
C7_PositiveCharges ==
    \A i \in DOMAIN sink :
        sink[i].kind = "createMeterTariff"
        => sink[i].value.amount[1] > 0 /\ sink[i].value.amount[2] > 0

\* a charge was written, and a reading that found a stored state wrote none
C7_Witness ==
    /\ \E i \in DOMAIN sink : sink[i].kind = "createMeterTariff"
    /\ \E n \in DOMAIN readings :
        /\ before[n][readings[n].id] # None
        /\ charges[n] = None

FirstReading == Reading(0, "s1", "m1", 1000)

SecondReading == Reading(3600000, "s1", "m1", 2000)

\* C8: with the flat tariff (00:00:00, 10, 20%), 1000 W at 0 ms stores the
\* state without a charge and 2000 W at 3600000 ms emits one charge of 24.
C8_OneHourScenario ==
    tariff = FlatTariff
    => /\ (Len(readings) >= 1 /\ readings[1] = FirstReading)
          => /\ charges[1] = None
             /\ After(1)["m1"] # None
             /\ After(1)["m1"].time = 0
             /\ After(1)["m1"].reading = 1000
       /\ (Len(readings) >= 2 /\ readings[1] = FirstReading
                              /\ readings[2] = SecondReading)
          => /\ charges[2] # None
             /\ charges[2].amount = <<24, 1>>
             /\ Len(readings) = 2 =>
                  Cardinality({i \in DOMAIN sink :
                                 sink[i].kind = "createMeterTariff"}) = 1

C8_Witness ==
    /\ tariff = FlatTariff
    /\ readings = <<FirstReading, SecondReading>>
    /\ ~raised
    /\ Len(sink) = 3

-----------------------------------------------------------------------------
(* Properties of the supervisor, checked under SupSpec *)

\* C9: a monitoring tick that finds a started unit no longer running leaves
\* the loop and starts the shutdown, whichever unit it is.
C9_DeadUnitShutsDown ==
    (ticked # None /\ ticked.dead) => pc \in {"finally", "join", "done"}

\* C10: a monitoring tick that finds a queue deeper than max_queue_size
\* leaves the loop and starts the shutdown.
C10_OverflowShutsDown ==
    (ticked # None /\ ticked.over) => pc \in {"finally", "join", "done"}

\* 1001 entries on the queue with the default threshold of 1000, seen by a tick
C10_Witness ==
    /\ config = DefaultQueue
    /\ qsize[2] = 1001
    /\ ticked # None
    /\ ticked.over
    /\ pc = "finally"

\* C11: the monitoring loop is left only on a violation: not at a tick where
\* no queue is deeper than max_queue_size and every started unit is running.
C11_NoSpuriousShutdown ==
    (ticked # None /\ ~ticked.over /\ ~ticked.dead) => ~ticked.leaves

\* C12: on shutdown every still-running started unit is signalled without
\* waiting for any other unit to exit: while the supervisor waits in a join,
\* no unit of its list is left without the signal.
C12_AllSignalled ==
    (ticked # None /\ ticked.leaves /\ pc = "join")
    => \A k \in DOMAIN joining : terminate[joining[k]]

\* C13: a unit whose terminate event is set can leave its loop by itself,
\* whatever the device and the sink do.
C13_FlaggedUnitCanExit ==
    \A i \in Modules : (terminate[i] /\ IsAlive(i)) => ENABLED UnitStops(i)

\* C19: a put on an inputs queue never waits, whatever the depth of the queue
\* and whether or not its reader still takes entries from it.
C19_PushNeverBlocks ==
    \A q \in Modules :
        ( /\ config.module[q].inputs
          /\ \E i \in Modules : Running(i)
          /\ qsize[q] < max_queue_size + Overfill )
        => ENABLED Push(q)

\* the reader of a queue has stopped and a poller has pushed past the threshold
C19_Witness ==
    \E q \in Modules :
        /\ config.module[q].inputs
        /\ ~Running(q)
        /\ qsize[q] > max_queue_size
        /\ \E i \in Modules : i # q /\ Running(i)

\* C18: a start string that is not H:M:S stops the program at load time: the
\* modules are not started with it, and no reading raises because of it.
C18_MalformedStartRejected ==
    (\E d \in DOMAIN tariff : \E w \in DOMAIN tariff[d].rate :
         ~WellFormed(tariff[d].rate[w]))
    => (loaded # "running" /\ ~valueerror)

-----------------------------------------------------------------------------
(* Properties of the sink writer, checked under WriterSpec *)

\* entry e is in the sink once at most
OnceAtMost(e) == Cardinality({k \in DOMAIN wsink : wsink[k] = e}) <= 1

\* no entry produced after e was written while e was not yet in the sink
NothingBefore(e) ==
    \A k \in DOMAIN wsink : wsink[k] > e => \E j \in 1..(k - 1) : wsink[j] = e

\* the entries whose only failures were connection errors
Transient == wconn \ wfailed

\* C14 as stated: an entry whose write met a connection error is never left
\* behind, is written once at most, and nothing later is written before it.
C14_NeverDropped ==
    \A e \in Transient : e \notin wgone /\ OnceAtMost(e) /\ NothingBefore(e)

\* C14: an entry whose write met a connection error is tried again until the
\* write succeeds or the terminate event of the writer is set; it is left
\* behind only once the event is set, is written once at most, and nothing
\* later is written before it.
C14_RetriedUntilWrittenOrTerminated ==
    \A e \in Transient :
        /\ e \in wgone => wterm
        /\ OnceAtMost(e)
        /\ NothingBefore(e)
        /\ e \in wgone \/ e \in Range(wsink) \/ (wbatch # <<>> /\ Head(wbatch) = e)

\* an entry was written after a connection error, and a later one after it
C14_Witness ==
    \E e \in Transient :
        /\ e \in Range(wsink)
        /\ \E k \in DOMAIN wsink : wsink[k] > e

\* C15: once a write has failed for a reason other than the connection, the
\* writing unit has ended and no later entry is in the sink.
C15_PermanentFailureFatal ==
    \A e \in wfailed :
        /\ wthread = "exited"
        /\ \A k \in DOMAIN wsink : wsink[k] < e

-----------------------------------------------------------------------------
(* Properties of the GoodWe poller, checked under PollerSpec *)

\* the last step received a response that is malformed
MalformedReceived ==
    glast # None /\ glast.kind \in {"header", "address", "crc", "unknown"}

\* the last step ran into the receive timeout
TimeoutReceived == glast # None /\ glast.kind = "timeout"

\* C16: a response with a bad header, wrong addresses, a bad checksum or an
\* unknown function code leaves the poller running and yields no reading.
C16_MalformedNotFatal ==
    MalformedReceived => (gthread = "running" /\ ~glast.forwarded)

\* C17: a receive timeout leaves the poller running, moves the cycle on as an
\* answer would have (the id query ends discovery, state RUNNING), changes
\* nothing else, and the run query of the cycle is still to be sent or was
\* the query that timed out.
C17_TimeoutSwallowed ==
    TimeoutReceived =>
        /\ gthread = "running"
        /\ ~glast.forwarded
        /\ gpc = AfterQuery(glast.query)
        /\ state = (IF glast.query = "id" THEN "RUNNING" ELSE glast.state)
        /\ glast.query = "run" => ENABLED Sleep
        /\ glast.query # "run" => ENABLED SendQuery(TRUE)

\* the run query of a poller in RUNNING timed out
C17_Witness ==
    TimeoutReceived /\ glast.query = "run" /\ glast.state = "RUNNING" /\ idinfo

-----------------------------------------------------------------------------
(* Properties of the lasttariff tables, checked under OwnersSpec *)

\* C20: no two instances refer to the same table, every table is read and
\* written by one thread only, the thread of the instance that refers to it,
\* and every state entry was stored by that thread.
C20_OwnTableOnly ==
    /\ \A i, j \in Instances :
           (i # j /\ opc[i] # "new" /\ opc[j] # "new") => olasttariff[i] # olasttariff[j]
    /\ \A a \in oaccess : \A i \in Instances :
           olasttariff[i] = a.table => a.thread = i
    /\ \A i \in Instances : \A m \in Meters :
           (opc[i] # "new" /\ heap[olasttariff[i]][m] # None)
           => heap[olasttariff[i]][m].by = i

\* both threads are inside write_tariff for the same meter id, each with a
\* state of that meter stored before
C20_Witness ==
    /\ \A i \in Instances : opc[i] = "charged" /\ oid[i] = "m1"
    /\ \A i \in Instances : heap[olasttariff[i]]["m1"] # None

-----------------------------------------------------------------------------
(* Properties of the supervisor, checked under SupSpec (continued) *)

\* C21: the exit status after a shutdown for a violation (restart) is not the
\* exit status the process has after a failure of its start-up (terminate).
C21_StatusTellsRestart ==
    (pc = "done" /\ Cause = "violation") => exit_status # ExitStatus("exception")

-----------------------------------------------------------------------------
(* Properties of the tariff accumulator, checked under Spec (continued) *)

\* the readings of meter id came with increasing times
IncreasingTimes(id) ==
    \A a, b \in DOMAIN readings :
        (a < b /\ readings[a].id = id /\ readings[b].id = id)
        => readings[a].time < readings[b].time

\* the start of the interval charge n covers: read_at of the state it was computed from
ChargedFrom(n) == before[n][readings[n].id].read_at

\* C22: the intervals covered by two charges of one meter whose readings came
\* with increasing times do not overlap: the later charge starts no earlier
\* than the reading of the earlier charge.
C22_NoSpanChargedTwice ==
    \A a, b \in DOMAIN readings :
        ( /\ a < b
          /\ readings[a].id = readings[b].id
          /\ IncreasingTimes(readings[a].id)
          /\ charges[a] # None
          /\ charges[b] # None )
        => readings[a].time <= ChargedFrom(b)

\* the state of its meter that reading n found stored, or None
Stored(n) == before[n][readings[n].id]

\* C23: a reading earlier than the stored state, with a value and a stored
\* rate that are not 0, is charged a positive amount, the amount of the time
\* between the two taken forward; a reading at the time of the stored state
\* is not charged.
C23_EarlierChargedSameTimeNot ==
    \A n \in DOMAIN readings :
        Stored(n) # None =>
            /\ ( /\ readings[n].time < Stored(n).read_at
                 /\ readings[n].reading # 0
                 /\ Stored(n).rate[1] # 0 )
               => /\ charges[n] # None
                  /\ RPos(charges[n].amount)
                  /\ charges[n].amount =
                       Expected(readings[n].reading, Stored(n).rate,
                                Stored(n).read_at - readings[n].time)
            /\ readings[n].time = Stored(n).read_at => charges[n] = None

\* a reading one hour before the stored state was charged, and a reading at
\* the time of the stored state was not
C23_Witness ==
    /\ \E n \in DOMAIN readings :
           /\ Stored(n) # None
           /\ readings[n].time < Stored(n).read_at
           /\ charges[n] # None
    /\ \E n \in DOMAIN readings :
           /\ Stored(n) # None
           /\ readings[n].time = Stored(n).read_at
           /\ readings[n].reading # 0
           /\ Stored(n).rate[1] # 0

-----------------------------------------------------------------------------
(* Properties of the polarity filter, checked under PolicySpec *)

\* the policy of definition d as the configuration gives it: "both" when it
\* gives none
PolicyOf(d) ==
    IF "meter_values" \in DOMAIN d.meter THEN d.meter.meter_values ELSE "both"

\* definition d is for the meter and source of reading k and its policy
\* admits the sign of k
Admits(d, k) ==
    /\ d.meter.id = k.id /\ d.meter.source = k.source
    /\ CASE PolicyOf(d) = "positive" -> k.reading >= 0
         [] PolicyOf(d) = "negative" -> k.reading < 0
         [] PolicyOf(d) = "both" -> TRUE
         [] OTHER -> FALSE

\* the definitions that admit reading k
Admitting(k) == {j \in DOMAIN tariff : Admits(tariff[j], k)}

\* C24: a reading is taken into the state by the definitions that admit it
\* (same meter id and source, 'positive' and reading >= 0, 'negative' and
\* reading < 0, 'both' or no policy) and by no other: if one admits it the
\* state holds the reading under the name of an admitting definition,
\* otherwise the state is as it was.
C24_AppliedIffAdmitted ==
    \A n \in DOMAIN readings :
        LET k == readings[n]
        IN  Completed(n)
            => IF Admitting(k) # {}
               THEN /\ After(n)[k.id] # None
                    /\ After(n)[k.id].time = k.time
                    /\ After(n)[k.id].reading = k.reading
                    /\ \E j \in Admitting(k) : After(n)[k.id].name = tariff[j].name
               ELSE After(n)[k.id] = before[n][k.id]

\* a negative reading was stored under the definition without a policy, and a
\* reading of the meter whose policy is unknown left no state
C24_Witness ==
    /\ tariff = NoPolicyTariff
    /\ ~raised
    /\ \E n \in DOMAIN readings :
           readings[n].id = "m1" /\ readings[n].source = "s1" /\ readings[n].reading < 0
    /\ lasttariff["m1"] # None /\ lasttariff["m1"].name = "plain"
    /\ lasttariff["m1"].reading < 0
    /\ \E n \in DOMAIN readings : readings[n].id = "m2"
    /\ lasttariff["m2"] = None

\* the last definition of the configuration that admits reading k
LastAdmitting(k) == CHOOSE j \in Admitting(k) : \A j2 \in Admitting(k) : j2 <= j

\* C25: after a reading that several definitions admit, the state holds the
\* type and name of the last of them in the configuration and the rate,
\* label, tax and rateid of one of its windows; and a charge carries the
\* type, name, label, tax and rateid of the stored state and the amount at
\* its rate.
C25_LastDefinitionWins ==
    /\ \A n \in DOMAIN readings :
           LET k == readings[n]
           IN  (Completed(n) /\ Admitting(k) # {})
               => LET d == tariff[LastAdmitting(k)]
                  IN  /\ After(n)[k.id] # None
                      /\ After(n)[k.id].type = d.type
                      /\ After(n)[k.id].name = d.name
                      /\ \E w \in DOMAIN d.rate : HoldsWindow(After(n)[k.id], d.rate[w])
    /\ \A n \in DOMAIN readings :
           charges[n] # None
           => /\ charges[n].type = Stored(n).type
              /\ charges[n].name = Stored(n).name
              /\ charges[n].tariff = Stored(n).tariff
              /\ charges[n].tax = Stored(n).tax
              /\ charges[n].rateid = Stored(n).rateid
              /\ charges[n].amount =
                   Expected(readings[n].reading, Stored(n).rate,
                            readings[n].time - Stored(n).read_at)

\* a positive reading that both definitions admit was stored under the second,
\* and the next reading was charged under it
C25_Witness ==
    /\ tariff = OverlapTariff
    /\ Len(readings) = 2
    /\ readings[1] = Reading(21600000, "s1", "m1", 2000)
    /\ Cardinality(Admitting(readings[1])) = 2
    /\ before[2]["m1"].name = "import"
    /\ charges[2] # None
    /\ charges[2].name = "import"
    /\ charges[2].rateid = "day"

-----------------------------------------------------------------------------
(* Properties of the tariff accumulator, checked under Spec (continued) *)

\* the last mutation executed reported errors
LastFailed == sink # <<>> /\ sink[Len(sink)].errors

\* C26: a step in which a mutation reports errors leaves the state table as
\* it was; when it is the mutation of the reading, no charge is written in
\* that step.
C26_FailureKeepsState ==
    [][(sink' # sink /\ sink'[Len(sink')].errors)
       => /\ lasttariff' = lasttariff
          /\ sink'[Len(sink')].kind = "createMeterReading"
             => Len(sink') = Len(sink) + 1]_vars

\* the mutation of a reading failed while its meter had a state from which a
\* charge was due and a definition that would have stored the reading
C26_Witness ==
    /\ LastFailed
    /\ sink[Len(sink)].kind = "createMeterReading"
    /\ LET k == sink[Len(sink)].value
       IN  /\ lasttariff[k.id] # None
           /\ Emits(TariffCharge(lasttariff[k.id], k))
           /\ \E j \in DOMAIN tariff : Applies(tariff[j], k)
           /\ lasttariff[k.id].time # k.time

\* what the sink was given for the readings 1..n the module produced, in
\* the order of their production, each followed by the charge made with it
RECURSIVE Produced(_)
Produced(n) ==
    IF n = 0 THEN <<>>
    ELSE Produced(n - 1) \o <<<<"createMeterReading", readings[n]>>>>
         \o (IF charges[n] # None THEN <<<<"createMeterTariff", charges[n]>>>> ELSE <<>>)

\* the mutations that were executed, but for a refused reading
Arrived ==
    LET kept == SelectSeq(sink, LAMBDA r : ~(r.kind = "createMeterReading" /\ r.errors))
    IN  [k \in DOMAIN kept |-> <<kept[k].kind, kept[k].value>>]

\* C27: the sink receives the readings of the module in the order of their
\* production, and each reading comes before the charge made with it, which
\* comes before the next reading.
C27_OrderOfProduction ==
    /\ Arrived = Produced(Len(readings))
    /\ \A p \in DOMAIN sink :
          sink[p].kind = "createMeterTariff"
          => /\ p > 1
             /\ sink[p - 1].kind = "createMeterReading"
             /\ ~sink[p - 1].errors
             /\ sink[p - 1].value.id = sink[p].value.id

\* two readings were written, each with a charge, and a third one after them
C27_Witness ==
    /\ Len(sink) = 5
    /\ sink[1].kind = "createMeterReading"
    /\ sink[2].kind = "createMeterReading"
    /\ sink[3].kind = "createMeterTariff"
    /\ sink[4].kind = "createMeterReading"
    /\ sink[5].kind = "createMeterTariff"
    /\ sink[2].value # sink[4].value
    /\ sink[1].value # sink[2].value

-----------------------------------------------------------------------------
(* Properties of the GoodWe poller, checked under PollerSpec (continued) *)

\* the cycle has just put the poller back from RUNNING to OFFLINE: the
\* discovery is about to be run and statetime is still the expired one
ForcedOffline == gpc = "send_offline" /\ state = "OFFLINE" /\ Expired

\* C28: the poller is put back from RUNNING to OFFLINE, to run the discovery
\* again, only when the device has given no valid response for 30 s.
C28_OfflineOnlyAfterSilence == ForcedOffline => QuietLong

\* C29: the poller is RUNNING only when the device has been identified: an
\* id response has been received.
C29_RunningOnlyIdentified == state = "RUNNING" => idinfo

\* a valid run response was received while no id response had been
RunBeforeId == glast # None /\ glast.kind = "run" /\ ~idinfo

\* C30: a valid run response received while the serial number and the model
\* are not known forwards no reading and leaves the poller running, and a
\* reading is forwarded only when they are known.
C30_RunBeforeIdIgnored ==
    /\ RunBeforeId => (~glast.forwarded /\ gthread = "running")
    /\ (glast # None /\ glast.forwarded) => idinfo

\* the error _check_valid_response raises for a malformed response
InvalidDataFormat == IF gstyle = "plugin" THEN "malformed" ELSE "runtime"

\* C31: a response that declares more payload than was received is refused
\* with the error of every other malformed response.
C31_CutRefusedAsMalformed ==
    (glast # None /\ glast.kind = "cut") => glast.raised = InvalidDataFormat

\* C32: the two addresses of the poller are those of its construction, 0x7f
\* and 0xB0, in every state.
C32_AddressesNeverChange == ap_address = 127 /\ inverter_address = 176

\* an offline response was accepted and _offline has assigned the addresses
C32_Witness ==
    /\ glast # None
    /\ glast.kind = "offline"
    /\ glast.raised = "none"
    /\ gpc = "send_id"

\* the poller is inside _send_udp
Sending == gpc \in {"send_offline", "send_id", "send_run"}

\* C33: _send_udp returns at the first send that succeeds, goes on to another
\* send after each of the first SOCKET_RETRIES failures, raises at the failure
\* after these and only then, which ends the poller, and so makes at most
\* SOCKET_RETRIES + 1 sends for a query.
C33_BoundedSendRetry ==
    /\ retry <= SOCKET_RETRIES + 1
    /\ (glast # None /\ glast.kind = "sent")
       => /\ glast.sends <= SOCKET_RETRIES + 1
          /\ gpc = glast.query /\ ~Sending
          /\ gthread = "running"
    /\ (Sending /\ gthread = "exited") <=> retry = SOCKET_RETRIES + 1
    /\ (Sending /\ gthread = "running") => ENABLED SendQuery(TRUE)

\* the send after SOCKET_RETRIES failures has failed too
C33_Witness ==
    /\ gpc = "send_run"
    /\ retry = SOCKET_RETRIES + 1
    /\ gthread = "exited"
    /\ state = "RUNNING"

-----------------------------------------------------------------------------
(* Properties of the plugins of abstract.py, checked under QueuesSpec *)

\* the formatters configured for the queue, in the order of the list
OwnFormatters(q) == SelectSeq(formatters, LAMBDA f : f.queuename = q)

\* what data_callback is to be called with for an entry taken from a queue
Handed(t) ==
    [queue |-> t.queue,
     data  |-> IF OwnFormatters(t.queue) # <<>>
               THEN do_formatting(OwnFormatters(t.queue)[1], t.data)
               ELSE t.data]

\* C34: every entry a listener has taken from a queue was handed to
\* data_callback, formatted by the formatter of the queue if it has one and
\* as it was if not.
C34_TakenIsHanded ==
    /\ Len(dbsink) = Len(taken)
    /\ \A k \in DOMAIN taken : dbsink[k] = Handed(taken[k])

\* the place of a queue in self.queues
QueueIndex(q) == CHOOSE k \in DOMAIN QueueNames : QueueNames[k] = q

\* the listener of an empty queue is alive: it is blocked in queue.get
Blocked(q) == q \in alive /\ queues[q] = <<>>

\* C35: at most one listener is alive, the one of the queue run is at;
\* within a pass of the while loop the queues are taken from in their order
\* and one entry at most from each; and while the listener of an empty queue
\* is blocked no entry is taken from another queue.
C35_OneListenerAtATime ==
    /\ Cardinality(alive) <= 1
    /\ alive \subseteq (IF rpc = "join" THEN {QueueNames[ridx]} ELSE {})
    /\ \A j, k \in DOMAIN taken :
          (j < k /\ taken[j].round = taken[k].round)
          => QueueIndex(taken[j].queue) < QueueIndex(taken[k].queue)
    /\ \A j, k \in DOMAIN taken : j < k => taken[j].round <= taken[k].round
    /\ \A q \in alive :
          Blocked(q) => \A p \in DOMAIN queues : p # q => ~ENABLED ListenerGets(p)

\* the listener of the first queue is blocked while an entry waits in the
\* second
C35_Witness ==
    /\ Blocked("q1")
    /\ queues["q2"] # <<>>
    /\ rounds > 1

\* the reading formatted by the formatters of the queue and by no other
OwnFormat(q, data) ==
    [data EXCEPT !.applied = [k \in DOMAIN OwnFormatters(q) |-> OwnFormatters(q)[k].name]]

\* C36: what _data_send has put on a queue is the reading formatted by the
\* formatters of that queue only, the reading itself if it has none.
C36_FormattedByOwnOnly ==
    \A q \in DOMAIN queues : \A k \in DOMAIN queues[q] :
        queues[q][k] = OwnFormat(q, Original(queues[q][k].reading))

-----------------------------------------------------------------------------
(* Properties of the supervisor, checked under SupSpec (continued) *)

\* main has left its try block by an exception of the start-up: no pass of
\* the monitoring loop was made
StartFailed == pc \in {"finally", "join", "done"} /\ ticked = None

\* C37: after a failed start-up the monitoring loop is not entered, every
\* thread that is alive is still to be joined, the thread main waits for has
\* its terminate event set, and when the end of the program is reported no
\* started thread is alive.
C37_FailedStartEndsThreads ==
    StartFailed =>
        /\ ~ENABLED Tick
        /\ \A i \in Modules : IsAlive(i) => i \in Range(joining)
        /\ pc = "join" => terminate[Head(joining)]
        /\ pc = "done" => \A i \in Modules : ~IsAlive(i)
        /\ \A i \in Modules : terminate[i] => i <= started

\* the second module could not be started; the first, alive then, has been
\* signalled and joined and the end of the program is reported
C37_Witness ==
    /\ StartFailed
    /\ pc = "done"
    /\ started = 1
    /\ Len(config.module) > 1
    /\ terminate[1]
    /\ thread[1] = "exited"

-----------------------------------------------------------------------------
(* Properties of the Enistic poller, checked under EnisticSpec *)

\* C38: a reading is forwarded only when the time offset is known; no two
\* readings forwarded one after the other carry the same time, whatever
\* their meters; and the time remembered is that of the last reading
\* forwarded and written.
C38_NoConsecutiveSameTime ==
    /\ eforwarded # <<>> => enistic_time_offset # None
    /\ \A k \in 1..(Len(eforwarded) - 1) : eforwarded[k].time # eforwarded[k + 1].time
    /\ (eforwarded # <<>> /\ ethread = "running")
       => last_reading_time * 1000 = eforwarded[Len(eforwarded)].time

\* a reading of one meter was held back because a reading of the other
\* meter with the same time had been forwarded before it
C38_Witness ==
    /\ elast # None
    /\ elast.did = "duplicate"
    /\ eforwarded # <<>>
    /\ eforwarded[Len(eforwarded)].id # elast.id

-----------------------------------------------------------------------------
(* Properties of the tariff accumulator, checked under Spec (continued) *)

\* no window of the definition has started at the time of day of the state
NoneQualified(st, d) ==
    \A w \in DOMAIN d.rate : TimeOfDay(st.time) < RateStart(d.rate[w])

\* C39: the rate, the label, the tax and the rateid of every stored state
\* are those of one window of the definition it was stored for.
C39_StateOfOneWindow ==
    \A m \in DOMAIN lasttariff :
        lasttariff[m] # None
        => \E j \in DOMAIN tariff :
              /\ lasttariff[m].type = tariff[j].type
              /\ lasttariff[m].name = tariff[j].name
              /\ \E w \in DOMAIN tariff[j].rate : HoldsWindow(lasttariff[m], tariff[j].rate[w])

\* a state stored for a reading at a time of day before the start of every
\* window
C39_Witness ==
    /\ tariff = LateStartTariff
    /\ lasttariff["m1"] # None
    /\ NoneQualified(lasttariff["m1"], tariff[1])
    /\ HoldsWindow(lasttariff["m1"], tariff[1].rate[1])

====
